---- MODULE Spec2Model ----
(***************************************************************************)
(* Model of src/src/stock_analyzer.py: StockTrendAnalyzer.analyze, the     *)
(* indicator calculators, the per-indicator classifiers, the signal        *)
(* scorer and TrendAnalysisResult.to_dict.                                 *)
(*                                                                         *)
(* Numbers.  A float is modelled as an exact rational [n, d] in lowest     *)
(* terms with d > 0; NaN is [n |-> 0, d |-> 0] and every comparison with   *)
(* NaN is false, as in IEEE arithmetic.  The recursive smoothers (ewm) and *)
(* the standard deviation have no bounded exact form; they are computed in *)
(* fixed point with FP units per 1.0, rounding down.                       *)
(*                                                                         *)
(* Objects.  A DataFrame the caller owns lives in `store` and is passed by *)
(* reference (arg).  The DataFrames analyze creates (sort_values, copy)    *)
(* are private to the call and are kept by value in df.  Python lists are  *)
(* heap objects: a list field of a result holds an address into `heap`.    *)
(***************************************************************************)
EXTENDS Integers, Sequences, FiniteSets, TLC

\* ------------------------------------------------------------------ bounds
\* Series of MinBars-1 (too short) and MinBars .. MinBars+MaxExtra bars.
MaxExtra == 6
\* Fixed-point units per 1.0 for ewm() and std().
FP == 100
\* The level the synthetic closes move around, and the volume of an
\* ordinary day.
Base == 100
BaseVol == 100

\* ------------------------------------------------------- program constants
MinBars == 20
BIAS_THRESHOLD == 5
MACD_FAST == 12
MACD_SLOW == 26
MACD_SIGNAL == 9
RSI_SHORT == 6
RSI_MID == 12
RSI_LONG == 24
RSI_OVERBOUGHT == 70
RSI_OVERSOLD == 30
KDJ_PERIOD == 9
KDJ_K_PERIOD == 3
KDJ_D_PERIOD == 3
KDJ_OVERBOUGHT == 80
KDJ_OVERSOLD == 20
BB_PERIOD == 20
BB_STD_DEV == 2
MOMENTUM_SHORT == 5
MOMENTUM_LONG == 10

\* ---------------------------------------------------------------- numbers
Abs(x) == IF x < 0 THEN -x ELSE x

RECURSIVE GCD(_, _)
GCD(a, b) == IF b = 0 THEN a ELSE GCD(b, a % b)

NaN == [n |-> 0, d |-> 0]

\* n/d as a float; x/0 is not a number.
Rat(n, d) ==
  IF d = 0 THEN NaN
  ELSE LET g == GCD(Abs(n), Abs(d))
           s == IF d < 0 THEN -1 ELSE 1
       IN  [n |-> (s * n) \div g, d |-> (s * d) \div g]

I(k) == [n |-> k, d |-> 1]
Zero == I(0)

IsNaN(x) == x.d = 0

Lt(a, b) == a.d # 0 /\ b.d # 0 /\ a.n * b.d < b.n * a.d
Le(a, b) == a.d # 0 /\ b.d # 0 /\ a.n * b.d <= b.n * a.d
Gt(a, b) == Lt(b, a)
Ge(a, b) == Le(b, a)

RAdd(a, b) == IF a.d = 0 \/ b.d = 0 THEN NaN ELSE Rat(a.n * b.d + b.n * a.d, a.d * b.d)
RSub(a, b) == IF a.d = 0 \/ b.d = 0 THEN NaN ELSE Rat(a.n * b.d - b.n * a.d, a.d * b.d)
RMul(a, b) == IF a.d = 0 \/ b.d = 0 THEN NaN ELSE Rat(a.n * b.n, a.d * b.d)
RDiv(a, b) == IF a.d = 0 \/ b.d = 0 THEN NaN ELSE Rat(a.n * b.d, a.d * b.n)
RAbs(a) == [n |-> Abs(a.n), d |-> a.d]

\* f"{x:.1f}": x rounded to tenths (the text shows the tenths as an integer).
Fmt1(x) == IF x.d = 0 THEN "nan" ELSE ToString((2 * 10 * x.n + x.d) \div (2 * x.d))

RECURSIVE ISqrtIn(_, _, _)
ISqrtIn(x, lo, hi) ==
  IF lo >= hi THEN lo
  ELSE LET mid == (lo + hi + 1) \div 2
       IN  IF mid * mid <= x THEN ISqrtIn(x, mid, hi) ELSE ISqrtIn(x, lo, mid - 1)
\* floor(sqrt(x)) for 0 <= x < 2^31
ISqrt(x) == ISqrtIn(x, 0, 46340)

RECURSIVE SumTo(_, _, _)
\* f[lo] + ... + f[hi]
SumTo(f, lo, hi) == IF lo > hi THEN 0 ELSE f[hi] + SumTo(f, lo, hi - 1)

Range(s) == {s[i] : i \in 1..Len(s)}
\* A DataFrame is its columns: a function from column names to sequences of
\* one length.
NRows(d) == Len(d["date"])
\* df[name]
Col(d, name) == d[name]
\* df[name] = col
AddCol(d, name, col) == (name :> (col \o <<>>)) @@ d

\* ---------------------------------------------------- indicator calculators
RECURSIVE PrefixOver(_, _, _, _)
\* The running sums p of col[1..lo-1] extended over the positions lo..hi
\* (the range is halved, and its first half computed before the second is
\* entered, so that long columns nest only a few calls deep).
PrefixOver(col, p, lo, hi) ==
  IF lo > hi THEN p
  ELSE IF lo = hi THEN Append(p, (IF lo = 1 THEN 0 ELSE p[lo - 1]) + col[lo])
  ELSE LET left == PrefixOver(col, p, lo, (lo + hi) \div 2)
       IN  IF Len(left) < lo THEN left
           ELSE PrefixOver(col, left, (lo + hi) \div 2 + 1, hi)
PrefixUpTo(col, i) == PrefixOver(col, <<>>, 1, i)
\* The running sums col[1] + ... + col[i].
Prefix(col) == PrefixUpTo(col, Len(col))
\* col[i-w+1] + ... + col[i] from the running sums p, for i >= w
Window(p, i, w) == p[i] - (IF i = w THEN 0 ELSE p[i - w])

\* The mean of the first w values at every bar from the w-th on.
RollMeanAnchored(col, w) ==
  LET p == Prefix(col)
  IN  [i \in 1..Len(col) |-> IF i < w THEN NaN ELSE Rat(p[w], w)]

\* Series.rolling(window=w).mean(): NaN until w values exist.
RollMean(col, w) ==
  LET p == Prefix(col)
  IN  [i \in 1..Len(col) |-> IF i < w THEN NaN ELSE Rat(Window(p, i, w), w)]

Max2(a, b) == IF a >= b THEN a ELSE b
Min2(a, b) == IF a <= b THEN a ELSE b
RECURSIVE MaxOf(_, _, _)
MaxOf(f, lo, hi) == IF lo = hi THEN f[lo] ELSE Max2(f[hi], MaxOf(f, lo, hi - 1))
RECURSIVE MinOf(_, _, _)
MinOf(f, lo, hi) == IF lo = hi THEN f[lo] ELSE Min2(f[hi], MinOf(f, lo, hi - 1))

RECURSIVE EwmOver(_, _, _, _, _)
\* Series.ewm(span=span, adjust=False).mean() of a fixed-point column:
\* y[1] = x[1], y[t] = (1-a)*y[t-1] + a*x[t] with a = 2/(span+1).
\* The values y of x[1..lo-1] extended over the positions lo..hi.
EwmOver(x, span, y, lo, hi) ==
  IF lo > hi THEN y
  ELSE IF lo = hi
    THEN Append(y, IF lo = 1 THEN x[1]
                   ELSE ((span - 1) * y[lo - 1] + 2 * x[lo]) \div (span + 1))
  ELSE LET left == EwmOver(x, span, y, lo, (lo + hi) \div 2)
       IN  IF Len(left) < lo THEN left
           ELSE EwmOver(x, span, left, (lo + hi) \div 2 + 1, hi)
EwmUpTo(x, span, i) == EwmOver(x, span, <<>>, 1, i)
Ewm(x, span) == EwmUpTo(x, span, Len(x))

FixedCol(col) == [i \in 1..Len(col) |-> Rat(col[i], FP)]

\* Moving averages with MA60 and MA250 always taken over their own windows.
CalculateMasOwnWindows(d) ==
  LET close == Col(d, "close")
  IN  AddCol(AddCol(AddCol(AddCol(AddCol(d, "MA5", RollMean(close, 5)),
                                  "MA10", RollMean(close, 10)),
                           "MA20", RollMean(close, 20)),
                    "MA60", RollMean(close, 60)), "MA250", RollMean(close, 250))

CalculateMas(d) ==
  LET close == Col(d, "close")
      ma5   == RollMean(close, 5)
      ma10  == RollMean(close, 10)
      ma20  == RollMean(close, 20)
      ma60  == IF NRows(d) >= 60 THEN RollMean(close, 60) ELSE ma20
      ma250 == IF NRows(d) >= 250 THEN RollMean(close, 250) ELSE ma60
  IN  AddCol(AddCol(AddCol(AddCol(AddCol(d, "MA5", ma5), "MA10", ma10),
                           "MA20", ma20), "MA60", ma60), "MA250", ma250)

CalculateMacd(d) ==
  LET close    == [i \in 1..NRows(d) |-> d.close[i] * FP]
      ema_fast == Ewm(close, MACD_FAST)
      ema_slow == Ewm(close, MACD_SLOW)
      dif      == [i \in 1..NRows(d) |-> ema_fast[i] - ema_slow[i]]
      dea      == Ewm(dif, MACD_SIGNAL)
      bar      == [i \in 1..NRows(d) |-> (dif[i] - dea[i]) * 2]
  IN  AddCol(AddCol(AddCol(d, "MACD_DIF", FixedCol(dif)), "MACD_DEA", FixedCol(dea)),
             "MACD_BAR", FixedCol(bar))

\* An RSI value that takes every zero denominator to 100, 0/0 included.
RsiValueUnfilled(g, l) ==
  IF l = 0 THEN I(100)
  ELSE RSub(I(100), RDiv(I(100), RAdd(I(1), Rat(g, l))))

\* One RSI value from the summed gains g and losses l of a full window:
\* rs = avg_gain / avg_loss, rsi = 100 - 100 / (1 + rs), then fillna(50).
\* 0/0 is NaN (filled with 50); g/0 with g > 0 is +inf, and 100 - 100/inf = 100.
RsiValue(g, l) ==
  IF l = 0 THEN (IF g = 0 THEN I(50) ELSE I(100))
  ELSE RSub(I(100), RDiv(I(100), RAdd(I(1), Rat(g, l))))

RsiCol(close, period) ==
  LET n     == Len(close)
      \* close.diff(): NaN on the first row, which where(delta > 0, 0) turns to 0
      delta == [i \in 1..n |-> IF i = 1 THEN 0 ELSE close[i] - close[i - 1]]
      gain  == Prefix([i \in 1..n |-> IF delta[i] > 0 THEN delta[i] ELSE 0])
      loss  == Prefix([i \in 1..n |-> IF delta[i] < 0 THEN -delta[i] ELSE 0])
  IN  [i \in 1..n |->
         IF i < period THEN I(50)   \* rolling mean is NaN, filled with 50
         ELSE RsiValue(Window(gain, i, period), Window(loss, i, period))]

CalculateRsi(d) ==
  LET close == Col(d, "close")
  IN  AddCol(AddCol(AddCol(d, "RSI_6", RsiCol(close, RSI_SHORT)),
                    "RSI_12", RsiCol(close, RSI_MID)), "RSI_24", RsiCol(close, RSI_LONG))

\* KDJ with the weights of K and D exchanged in J.
CalculateKdjMirrored(d) ==
  LET n    == NRows(d)
      low  == Col(d, "low")
      high == Col(d, "high")
      rsv  == [i \in 1..n |->
                 IF i < KDJ_PERIOD THEN 50 * FP       \* NaN window, fillna(50)
                 ELSE LET lo == MinOf(low, i - KDJ_PERIOD + 1, i)
                          hi == MaxOf(high, i - KDJ_PERIOD + 1, i)
                      IN  IF hi - lo = 0 THEN 50 * FP  \* replace(0, nan), fillna(50)
                          ELSE ((d.close[i] - lo) * 100 * FP) \div (hi - lo)]
      k    == Ewm(rsv, KDJ_K_PERIOD)
      dd   == Ewm(k, KDJ_D_PERIOD)
      j    == [i \in 1..n |-> 3 * dd[i] - 2 * k[i]]
  IN  AddCol(AddCol(AddCol(d, "KDJ_K", FixedCol(k)), "KDJ_D", FixedCol(dd)),
             "KDJ_J", FixedCol(j))

CalculateKdj(d) ==
  LET n    == NRows(d)
      low  == Col(d, "low")
      high == Col(d, "high")
      rsv  == [i \in 1..n |->
                 IF i < KDJ_PERIOD THEN 50 * FP       \* NaN window, fillna(50)
                 ELSE LET lo == MinOf(low, i - KDJ_PERIOD + 1, i)
                          hi == MaxOf(high, i - KDJ_PERIOD + 1, i)
                      IN  IF hi - lo = 0 THEN 50 * FP  \* replace(0, nan), fillna(50)
                          ELSE ((d.close[i] - lo) * 100 * FP) \div (hi - lo)]
      k    == Ewm(rsv, KDJ_K_PERIOD)
      dd   == Ewm(k, KDJ_D_PERIOD)
      j    == [i \in 1..n |-> 3 * k[i] - 2 * dd[i]]
  IN  AddCol(AddCol(AddCol(d, "KDJ_K", FixedCol(k)), "KDJ_D", FixedCol(dd)),
             "KDJ_J", FixedCol(j))

\* Series.rolling(w).std() (ddof = 1) in fixed point:
\* sqrt((w * sum(x^2) - sum(x)^2) / (w * (w - 1))).
RollStd(col, w) ==
  LET p1 == Prefix(col)
      p2 == Prefix([k \in 1..Len(col) |-> col[k] * col[k]])
  IN  [i \in 1..Len(col) |->
         IF i < w THEN NaN
         ELSE LET s1 == Window(p1, i, w)
                  s2 == Window(p2, i, w)
              IN  Rat(ISqrt(((w * s2 - s1 * s1) * FP * FP) \div (w * (w - 1))), FP)]

\* Bands with the deviation subtracted above and added below the middle.
CalculateBollingerBandsSwapped(d) ==
  LET n      == NRows(d)
      close  == Col(d, "close")
      middle == RollMean(close, BB_PERIOD)
      std    == RollStd(close, BB_PERIOD)
      upper  == [i \in 1..n |-> RSub(middle[i], RMul(std[i], I(BB_STD_DEV)))]
      lower  == [i \in 1..n |-> RAdd(middle[i], RMul(std[i], I(BB_STD_DEV)))]
  IN  AddCol(AddCol(AddCol(d, "BB_MIDDLE", middle), "BB_UPPER", upper), "BB_LOWER", lower)

CalculateBollingerBands(d) ==
  LET n      == NRows(d)
      close  == Col(d, "close")
      middle == RollMean(close, BB_PERIOD)
      std    == RollStd(close, BB_PERIOD)
      upper  == [i \in 1..n |-> RAdd(middle[i], RMul(std[i], I(BB_STD_DEV)))]
      lower  == [i \in 1..n |-> RSub(middle[i], RMul(std[i], I(BB_STD_DEV)))]
  IN  AddCol(AddCol(AddCol(d, "BB_MIDDLE", middle), "BB_UPPER", upper), "BB_LOWER", lower)

\* Series.pct_change(periods=k) * 100
PctChange(col, k) ==
  [i \in 1..Len(col) |->
     IF i <= k THEN NaN ELSE Rat(100 * (col[i] - col[i - k]), col[i - k])]

CalculateMomentum(d) ==
  LET close == Col(d, "close")
  IN  AddCol(AddCol(d, "MOMENTUM_5D", PctChange(close, MOMENTUM_SHORT)),
             "MOMENTUM_10D", PctChange(close, MOMENTUM_LONG))

CalculateVolumeMa(d) ==
  LET volume == Col(d, "volume")
  IN  AddCol(AddCol(AddCol(d, "VOL_MA5", RollMean(volume, 5)),
                    "VOL_MA10", RollMean(volume, 10)), "VOL_MA20", RollMean(volume, 20))

\* ------------------------------------------------------------------ enums
TrendStatus == {"STRONG_BULL", "BULL", "WEAK_BULL", "CONSOLIDATION",
                "WEAK_BEAR", "BEAR", "STRONG_BEAR"}
VolumeStatus == {"HEAVY_VOLUME_UP", "HEAVY_VOLUME_DOWN", "SHRINK_VOLUME_UP",
                 "SHRINK_VOLUME_DOWN", "NORMAL"}
BuySignal == {"STRONG_BUY", "BUY", "HOLD", "WAIT", "SELL", "STRONG_SELL"}
MACDStatus == {"GOLDEN_CROSS_ZERO", "GOLDEN_CROSS", "BULLISH", "CROSSING_UP",
               "CROSSING_DOWN", "BEARISH", "DEATH_CROSS"}
RSIStatus == {"OVERBOUGHT", "STRONG_BUY", "NEUTRAL", "WEAK", "OVERSOLD"}

\* Enum.value: the member's label (the Chinese labels, glossed).
EnumValue(kind, member) == <<kind, "value of", member>>

\* A text is a tuple of strings: a fixed wording followed by the formatted
\* numbers it embeds; "" is <<>>.
InsufficientData == <<"insufficient data">>               \* "数据不足"
InsufficientRisk == <<"insufficient data, analysis impossible">>

\* ------------------------------------------------------ TrendAnalysisResult
\* One list object for every list(): the address of the first list made.
SharedList(h) == 1

\* list(): a new empty list on the heap h; its address.
NewList(h) == Len(h) + 1

\* TrendAnalysisResult(code=code): every field at its declared default, each
\* list field a fresh list (field(default_factory=list)).
ResultWithLists(code, res, sup, reasons, risks) ==
  [code |-> code,
   trend_status |-> "CONSOLIDATION", ma_alignment |-> <<>>, trend_strength |-> Zero,
   ma5 |-> Zero, ma10 |-> Zero, ma20 |-> Zero, ma60 |-> Zero, ma250 |-> Zero,
   current_price |-> Zero,
   bias_ma5 |-> Zero, bias_ma10 |-> Zero, bias_ma20 |-> Zero, bias_ma60 |-> Zero,
   bias_ma250 |-> Zero,
   volume_status |-> "NORMAL", volume_ratio_5d |-> Zero, volume_trend |-> <<>>,
   support_ma5 |-> FALSE, support_ma10 |-> FALSE,
   resistance_levels |-> res, support_levels |-> sup,
   macd_dif |-> Zero, macd_dea |-> Zero, macd_bar |-> Zero,
   macd_status |-> "BULLISH", macd_signal |-> <<>>,
   rsi_6 |-> Zero, rsi_12 |-> Zero, rsi_24 |-> Zero,
   rsi_status |-> "NEUTRAL", rsi_signal |-> <<>>,
   kdj_k |-> Zero, kdj_d |-> Zero, kdj_j |-> Zero, kdj_signal |-> <<>>,
   bb_upper |-> Zero, bb_middle |-> Zero, bb_lower |-> Zero, bb_width |-> Zero,
   bb_position |-> <<>>,
   momentum_5d |-> Zero, momentum_10d |-> Zero, momentum_signal |-> <<>>,
   vol_ma5 |-> Zero, vol_ma10 |-> Zero, vol_ma20 |-> Zero, vol_ratio_ma5 |-> Zero,
   vol_trend |-> <<>>,
   buy_signal |-> "WAIT", signal_score |-> 0,
   signal_reasons |-> reasons, risk_factors |-> risks]

ListFields == {"resistance_levels", "support_levels", "signal_reasons", "risk_factors"}

\* The result and the heap after the constructor ran on heap h.
NewResult(code, h) ==
  LET a == NewList(h)
  IN  [r |-> ResultWithLists(code, a, a + 1, a + 2, a + 3),
       h |-> h \o <<<<>>, <<>>, <<>>, <<>>>>]

\* lst.append(x)
ListAppend(h, addr, x) == [h EXCEPT ![addr] = Append(@, x)]

\* The result with every list field replaced by the list's contents.
Deref(r, h) ==
  [f \in DOMAIN r |-> IF f \in ListFields THEN h[r[f]] ELSE r[f]]

\* ------------------------------------------------------------- classifiers
\* df.iloc[-k]: the k-th row from the end
Iloc(d, k) == [c \in DOMAIN d |-> d[c][NRows(d) + 1 - k]]

\* float(latest['MA5']) ... float(latest.get('MA250', 0))
ExtractMas(d, r) ==
  LET latest == Iloc(d, 1)
      get(name) == IF name \in DOMAIN latest THEN latest[name] ELSE Zero
  IN  [r EXCEPT !.current_price = I(latest.close),
                !.ma5 = latest.MA5, !.ma10 = latest.MA10, !.ma20 = latest.MA20,
                !.ma60 = get("MA60"), !.ma250 = get("MA250")]

\* A spread that is 0 where an average is undefined.
SpreadOrZero(a, b) ==
  IF IsNaN(a) \/ IsNaN(b) THEN Zero ELSE RMul(RDiv(RSub(a, b), b), I(100))
\* (a - b) / b * 100
Spread(a, b) == RMul(RDiv(RSub(a, b), b), I(100))

\* A trend classification without the weak and the strong variants.
AnalyzeTrendThreeWay(d, r) ==
  LET set(status, text, strength) ==
        [r EXCEPT !.trend_status = status, !.ma_alignment = <<text>>,
                  !.trend_strength = I(strength)]
  IN  IF Gt(r.ma5, r.ma10) /\ Gt(r.ma10, r.ma20)
        THEN set("BULL", "bull alignment MA5>MA10>MA20", 75)
      ELSE IF Lt(r.ma5, r.ma10) /\ Lt(r.ma10, r.ma20)
        THEN set("BEAR", "bear alignment MA5<MA10<MA20", 25)
      ELSE set("CONSOLIDATION", "averages entangled, no clear trend", 50)

AnalyzeTrend(d, r) ==
  LET ma5 == r.ma5
      ma10 == r.ma10
      ma20 == r.ma20
      prev == IF NRows(d) >= 5 THEN Iloc(d, 5) ELSE Iloc(d, 1)
      set(status, text, strength) ==
        [r EXCEPT !.trend_status = status, !.ma_alignment = <<text>>,
                  !.trend_strength = I(strength)]
  IN  IF Gt(ma5, ma10) /\ Gt(ma10, ma20) THEN
        LET prev_spread == IF Gt(prev.MA20, Zero) THEN Spread(prev.MA5, prev.MA20) ELSE Zero
            curr_spread == IF Gt(ma20, Zero) THEN Spread(ma5, ma20) ELSE Zero
        IN  IF Gt(curr_spread, prev_spread) /\ Gt(curr_spread, I(5))
            THEN set("STRONG_BULL", "strong bull alignment, averages fanning up", 90)
            ELSE set("BULL", "bull alignment MA5>MA10>MA20", 75)
      ELSE IF Gt(ma5, ma10) /\ Le(ma10, ma20) THEN
        set("WEAK_BULL", "weak bull, MA5>MA10 but MA10<=MA20", 55)
      ELSE IF Lt(ma5, ma10) /\ Lt(ma10, ma20) THEN
        LET prev_spread == IF Gt(prev.MA5, Zero) THEN Spread(prev.MA20, prev.MA5) ELSE Zero
            curr_spread == IF Gt(ma5, Zero) THEN Spread(ma20, ma5) ELSE Zero
        IN  IF Gt(curr_spread, prev_spread) /\ Gt(curr_spread, I(5))
            THEN set("STRONG_BEAR", "strong bear alignment, averages fanning down", 10)
            ELSE set("BEAR", "bear alignment MA5<MA10<MA20", 25)
      ELSE IF Lt(ma5, ma10) /\ Ge(ma10, ma20) THEN
        set("WEAK_BEAR", "weak bear, MA5<MA10 but MA10>=MA20", 40)
      ELSE set("CONSOLIDATION", "averages entangled, no clear trend", 50)

CalculateBias(r) ==
  LET price == r.current_price
      bias(ma, old) == IF Gt(ma, Zero) THEN Spread(price, ma) ELSE old
  IN  [r EXCEPT !.bias_ma5 = bias(r.ma5, @), !.bias_ma10 = bias(r.ma10, @),
                !.bias_ma20 = bias(r.ma20, @), !.bias_ma60 = bias(r.ma60, @),
                !.bias_ma250 = bias(r.ma250, @)]

\* float(latest.get('KDJ_K', 0)) ... float(latest.get('VOL_MA20', 0))
ExtractIndicators(d, r) ==
  LET latest == Iloc(d, 1)
      get(name) == IF name \in DOMAIN latest THEN latest[name] ELSE Zero
  IN  [r EXCEPT !.kdj_k = get("KDJ_K"), !.kdj_d = get("KDJ_D"), !.kdj_j = get("KDJ_J"),
                !.bb_upper = get("BB_UPPER"), !.bb_middle = get("BB_MIDDLE"),
                !.bb_lower = get("BB_LOWER"),
                !.momentum_5d = get("MOMENTUM_5D"), !.momentum_10d = get("MOMENTUM_10D"),
                !.vol_ma5 = get("VOL_MA5"), !.vol_ma10 = get("VOL_MA10"),
                !.vol_ma20 = get("VOL_MA20")]

VOLUME_SHRINK_RATIO == Rat(7, 10)
\* A heavy-volume threshold of twice the program's.
HeavyRatioDoubled == Rat(3, 1)
VOLUME_HEAVY_RATIO == Rat(3, 2)
MA_SUPPORT_TOLERANCE == Rat(2, 100)

\* A volume regime that counts an unchanged close as an up day.
AnalyzeVolumeFlatIsUp(d, r) ==
  IF NRows(d) < 5 THEN r
  ELSE
    LET n == NRows(d)
        latest == Iloc(d, 1)
        \* df['volume'].iloc[-6:-1].mean()
        lo == Max2(1, n - 5)
        vol_5d_avg == Rat(SumTo(Col(d, "volume"), lo, n - 1), n - lo)
        ratio == IF Gt(vol_5d_avg, Zero) THEN RDiv(I(latest.volume), vol_5d_avg)
                 ELSE r.volume_ratio_5d
        prev_close == Iloc(d, 2).close
        price_change == Rat((latest.close - prev_close) * 100, prev_close)
        set(status, text) ==
          [r EXCEPT !.volume_ratio_5d = ratio, !.volume_status = status,
                    !.volume_trend = <<text>>]
    IN  IF Ge(ratio, VOLUME_HEAVY_RATIO) THEN
          IF Ge(price_change, Zero)
          THEN set("HEAVY_VOLUME_UP", "heavy volume up, bulls strong")
          ELSE set("HEAVY_VOLUME_DOWN", "heavy volume down, mind the risk")
        ELSE IF Le(ratio, VOLUME_SHRINK_RATIO) THEN
          IF Ge(price_change, Zero)
          THEN set("SHRINK_VOLUME_UP", "shrinking volume up, weak push")
          ELSE set("SHRINK_VOLUME_DOWN", "shrinking volume pullback (good)")
        ELSE set("NORMAL", "volume normal")

\* A volume regime that reports NORMAL when the 5 prior bars did not trade.
AnalyzeVolumeUntradedIsNormal(d, r) ==
  IF NRows(d) < 5 THEN r
  ELSE
    LET n == NRows(d)
        latest == Iloc(d, 1)
        \* df['volume'].iloc[-6:-1].mean()
        lo == Max2(1, n - 5)
        vol_5d_avg == Rat(SumTo(Col(d, "volume"), lo, n - 1), n - lo)
        ratio == IF Gt(vol_5d_avg, Zero) THEN RDiv(I(latest.volume), vol_5d_avg)
                 ELSE r.volume_ratio_5d
        prev_close == Iloc(d, 2).close
        price_change == Rat((latest.close - prev_close) * 100, prev_close)
        set(status, text) ==
          [r EXCEPT !.volume_ratio_5d = ratio, !.volume_status = status,
                    !.volume_trend = <<text>>]
    IN  IF ~Gt(vol_5d_avg, Zero) THEN set("NORMAL", "volume normal")
        ELSE IF Ge(ratio, VOLUME_HEAVY_RATIO) THEN
          IF Gt(price_change, Zero)
          THEN set("HEAVY_VOLUME_UP", "heavy volume up, bulls strong")
          ELSE set("HEAVY_VOLUME_DOWN", "heavy volume down, mind the risk")
        ELSE IF Le(ratio, VOLUME_SHRINK_RATIO) THEN
          IF Gt(price_change, Zero)
          THEN set("SHRINK_VOLUME_UP", "shrinking volume up, weak push")
          ELSE set("SHRINK_VOLUME_DOWN", "shrinking volume pullback (good)")
        ELSE set("NORMAL", "volume normal")

AnalyzeVolume(d, r) ==
  IF NRows(d) < 5 THEN r
  ELSE
    LET n == NRows(d)
        latest == Iloc(d, 1)
        \* df['volume'].iloc[-6:-1].mean()
        lo == Max2(1, n - 5)
        vol_5d_avg == Rat(SumTo(Col(d, "volume"), lo, n - 1), n - lo)
        ratio == IF Gt(vol_5d_avg, Zero) THEN RDiv(I(latest.volume), vol_5d_avg)
                 ELSE r.volume_ratio_5d
        prev_close == Iloc(d, 2).close
        price_change == Rat((latest.close - prev_close) * 100, prev_close)
        set(status, text) ==
          [r EXCEPT !.volume_ratio_5d = ratio, !.volume_status = status,
                    !.volume_trend = <<text>>]
    IN  IF Ge(ratio, VOLUME_HEAVY_RATIO) THEN
          IF Gt(price_change, Zero)
          THEN set("HEAVY_VOLUME_UP", "heavy volume up, bulls strong")
          ELSE set("HEAVY_VOLUME_DOWN", "heavy volume down, mind the risk")
        ELSE IF Le(ratio, VOLUME_SHRINK_RATIO) THEN
          IF Gt(price_change, Zero)
          THEN set("SHRINK_VOLUME_UP", "shrinking volume up, weak push")
          ELSE set("SHRINK_VOLUME_DOWN", "shrinking volume pullback (good)")
        ELSE set("NORMAL", "volume normal")

\* Support within the tolerance on either side of the average.
AnalyzeSupportResistanceBothSides(d, r, h) ==
  LET price == r.current_price
      near(ma) == Gt(ma, Zero)
                  /\ Le(RDiv(RAbs(RSub(price, ma)), ma), MA_SUPPORT_TOLERANCE)
      s5 == near(r.ma5)
      s10 == near(r.ma10)
      h1 == IF s5 THEN ListAppend(h, r.support_levels, r.ma5) ELSE h
      h2 == IF s10 /\ r.ma10 \notin Range(h1[r.support_levels])
            THEN ListAppend(h1, r.support_levels, r.ma10) ELSE h1
      h3 == IF Gt(r.ma20, Zero) /\ Ge(price, r.ma20)
            THEN ListAppend(h2, r.support_levels, r.ma20) ELSE h2
      recent_high == I(MaxOf(Col(d, "high"), NRows(d) - 19, NRows(d)))
      h4 == IF NRows(d) >= 20 /\ Gt(recent_high, price)
            THEN ListAppend(h3, r.resistance_levels, recent_high) ELSE h3
  IN  [r |-> [r EXCEPT !.support_ma5 = IF s5 THEN TRUE ELSE @,
                       !.support_ma10 = IF s10 THEN TRUE ELSE @],
       h |-> h4]

\* Returns [r, h]: the lists are appended to in place.
AnalyzeSupportResistance(d, r, h) ==
  LET price == r.current_price
      near(ma) == Gt(ma, Zero)
                  /\ Le(RDiv(RAbs(RSub(price, ma)), ma), MA_SUPPORT_TOLERANCE)
                  /\ Ge(price, ma)
      s5 == near(r.ma5)
      s10 == near(r.ma10)
      h1 == IF s5 THEN ListAppend(h, r.support_levels, r.ma5) ELSE h
      h2 == IF s10 /\ r.ma10 \notin Range(h1[r.support_levels])
            THEN ListAppend(h1, r.support_levels, r.ma10) ELSE h1
      h3 == IF Gt(r.ma20, Zero) /\ Ge(price, r.ma20)
            THEN ListAppend(h2, r.support_levels, r.ma20) ELSE h2
      recent_high == I(MaxOf(Col(d, "high"), NRows(d) - 19, NRows(d)))
      h4 == IF NRows(d) >= 20 /\ Gt(recent_high, price)
            THEN ListAppend(h3, r.resistance_levels, recent_high) ELSE h3
  IN  [r |-> [r EXCEPT !.support_ma5 = IF s5 THEN TRUE ELSE @,
                       !.support_ma10 = IF s10 THEN TRUE ELSE @],
       h |-> h4]

\* A history check that lets every series through to the MACD classifier.
MacdHistoryNeverShort(d) == FALSE
\* len(df) < self.MACD_SLOW
MacdHistoryShort(d) == NRows(d) < MACD_SLOW

\* A MACD classification that looks at the signs of DIF and DEA before the
\* crosses.
AnalyzeMacdLevelsFirst(d, r) ==
  IF MacdHistoryShort(d) THEN [r EXCEPT !.macd_signal = InsufficientData]
  ELSE
    LET latest == Iloc(d, 1)
        prev == Iloc(d, 2)
        dif == latest.MACD_DIF
        dea == latest.MACD_DEA
        prev_dif_dea == RSub(prev.MACD_DIF, prev.MACD_DEA)
        curr_dif_dea == RSub(dif, dea)
        is_golden_cross == Le(prev_dif_dea, Zero) /\ Gt(curr_dif_dea, Zero)
        is_death_cross == Ge(prev_dif_dea, Zero) /\ Lt(curr_dif_dea, Zero)
        prev_zero == prev.MACD_DIF
        curr_zero == dif
        is_crossing_up == Le(prev_zero, Zero) /\ Gt(curr_zero, Zero)
        is_crossing_down == Ge(prev_zero, Zero) /\ Lt(curr_zero, Zero)
        set(status, text) ==
          [r EXCEPT !.macd_dif = dif, !.macd_dea = dea, !.macd_bar = latest.MACD_BAR,
                    !.macd_status = status, !.macd_signal = <<text>>]
    IN  IF Gt(dif, Zero) /\ Gt(dea, Zero) THEN set("BULLISH", "bullish, rise continues")
        ELSE IF Lt(dif, Zero) /\ Lt(dea, Zero) THEN set("BEARISH", "bearish, fall continues")
        ELSE IF is_golden_cross /\ Gt(curr_zero, Zero)
          THEN set("GOLDEN_CROSS_ZERO", "golden cross above zero, strong buy")
        ELSE IF is_crossing_up THEN set("CROSSING_UP", "DIF crosses up through zero")
        ELSE IF is_golden_cross THEN set("GOLDEN_CROSS", "golden cross, trend up")
        ELSE IF is_death_cross THEN set("DEATH_CROSS", "death cross, trend down")
        ELSE IF is_crossing_down THEN set("CROSSING_DOWN", "DIF crosses down through zero")
        ELSE set("BULLISH", "MACD neutral zone")

AnalyzeMacd(d, r) ==
  IF MacdHistoryShort(d) THEN [r EXCEPT !.macd_signal = InsufficientData]
  ELSE
    LET latest == Iloc(d, 1)
        prev == Iloc(d, 2)
        dif == latest.MACD_DIF
        dea == latest.MACD_DEA
        prev_dif_dea == RSub(prev.MACD_DIF, prev.MACD_DEA)
        curr_dif_dea == RSub(dif, dea)
        is_golden_cross == Le(prev_dif_dea, Zero) /\ Gt(curr_dif_dea, Zero)
        is_death_cross == Ge(prev_dif_dea, Zero) /\ Lt(curr_dif_dea, Zero)
        prev_zero == prev.MACD_DIF
        curr_zero == dif
        is_crossing_up == Le(prev_zero, Zero) /\ Gt(curr_zero, Zero)
        is_crossing_down == Ge(prev_zero, Zero) /\ Lt(curr_zero, Zero)
        set(status, text) ==
          [r EXCEPT !.macd_dif = dif, !.macd_dea = dea, !.macd_bar = latest.MACD_BAR,
                    !.macd_status = status, !.macd_signal = <<text>>]
    IN  IF is_golden_cross /\ Gt(curr_zero, Zero)
          THEN set("GOLDEN_CROSS_ZERO", "golden cross above zero, strong buy")
        ELSE IF is_crossing_up THEN set("CROSSING_UP", "DIF crosses up through zero")
        ELSE IF is_golden_cross THEN set("GOLDEN_CROSS", "golden cross, trend up")
        ELSE IF is_death_cross THEN set("DEATH_CROSS", "death cross, trend down")
        ELSE IF is_crossing_down THEN set("CROSSING_DOWN", "DIF crosses down through zero")
        ELSE IF Gt(dif, Zero) /\ Gt(dea, Zero) THEN set("BULLISH", "bullish, rise continues")
        ELSE IF Lt(dif, Zero) /\ Lt(dea, Zero) THEN set("BEARISH", "bearish, fall continues")
        ELSE set("BULLISH", "MACD neutral zone")

AnalyzeRsi(d, r) ==
  IF NRows(d) < RSI_LONG THEN [r EXCEPT !.rsi_signal = InsufficientData]
  ELSE
    LET latest == Iloc(d, 1)
        rsi_mid == latest.RSI_12
        set(status, text) ==
          [r EXCEPT !.rsi_6 = latest.RSI_6, !.rsi_12 = latest.RSI_12,
                    !.rsi_24 = latest.RSI_24,
                    !.rsi_status = status, !.rsi_signal = <<text, Fmt1(rsi_mid)>>]
    IN  IF Gt(rsi_mid, I(RSI_OVERBOUGHT)) THEN set("OVERBOUGHT", "RSI overbought >70")
        ELSE IF Gt(rsi_mid, I(60)) THEN set("STRONG_BUY", "RSI strong")
        ELSE IF Ge(rsi_mid, I(40)) THEN set("NEUTRAL", "RSI neutral")
        ELSE IF Ge(rsi_mid, I(RSI_OVERSOLD)) THEN set("WEAK", "RSI weak")
        ELSE set("OVERSOLD", "RSI oversold <30")

AnalyzeKdj(d, r) ==
  IF NRows(d) < KDJ_PERIOD THEN [r EXCEPT !.kdj_signal = InsufficientData]
  ELSE
    LET k == r.kdj_k
        dd == r.kdj_d
        j == r.kdj_j
        set(text) == [r EXCEPT !.kdj_signal = <<text, Fmt1(k), Fmt1(dd)>>]
    IN  IF Gt(k, I(KDJ_OVERBOUGHT)) /\ Gt(dd, I(KDJ_OVERBOUGHT)) THEN set("KDJ overbought")
        ELSE IF Lt(k, I(KDJ_OVERSOLD)) /\ Lt(dd, I(KDJ_OVERSOLD)) THEN set("KDJ oversold")
        ELSE IF Gt(k, dd) /\ Gt(j, k) THEN set("KDJ golden cross")
        ELSE IF Lt(k, dd) /\ Lt(j, k) THEN set("KDJ death cross")
        ELSE set("KDJ neutral")

AnalyzeBollingerBands(d, r) ==
  IF NRows(d) < BB_PERIOD THEN [r EXCEPT !.bb_position = InsufficientData]
  ELSE
    LET price == r.current_price
        upper == r.bb_upper
        middle == r.bb_middle
        lower == r.bb_lower
        width == IF Gt(upper, Zero) /\ Gt(lower, Zero)
                 THEN RMul(RDiv(RSub(upper, lower), middle), I(100))
                 ELSE r.bb_width
        set(text) == [r EXCEPT !.bb_width = width, !.bb_position = <<text>>]
    IN  IF Ge(price, upper) THEN set("above the upper band (overbought)")
        ELSE IF Ge(price, middle) THEN set("above the middle band (bull zone)")
        ELSE IF Ge(price, lower) THEN set("below the middle band (bear zone)")
        ELSE set("below the lower band (oversold)")

AnalyzeMomentum(d, r) ==
  IF NRows(d) < MOMENTUM_LONG THEN [r EXCEPT !.momentum_signal = InsufficientData]
  ELSE
    LET m5 == r.momentum_5d
        m10 == r.momentum_10d
        set(text) == [r EXCEPT !.momentum_signal = <<text, Fmt1(m5), Fmt1(m10)>>]
    IN  IF Gt(m5, I(3)) /\ Gt(m10, I(5)) THEN set("strong rise")
        ELSE IF Gt(m5, I(1)) /\ Gt(m10, I(2)) THEN set("mild rise")
        ELSE IF Lt(m5, I(-3)) /\ Lt(m10, I(-5)) THEN set("accelerating fall")
        ELSE IF Lt(m5, I(-1)) /\ Lt(m10, I(-2)) THEN set("mild fall")
        ELSE set("sideways")

AnalyzeVolumeMa(d, r) ==
  IF NRows(d) < 20 THEN [r EXCEPT !.vol_trend = InsufficientData]
  ELSE
    LET current_vol == I(Iloc(d, 1).volume)
        v5 == r.vol_ma5
        v10 == r.vol_ma10
        v20 == r.vol_ma20
        ratio == IF Gt(v5, Zero) THEN RDiv(current_vol, v5) ELSE r.vol_ratio_ma5
        set(text) == [r EXCEPT !.vol_ratio_ma5 = ratio, !.vol_trend = <<text>>]
    IN  IF Gt(v5, v10) /\ Gt(v10, v20) THEN set("volume averages bull-aligned")
        ELSE IF Lt(v5, v10) /\ Lt(v10, v20) THEN set("volume averages bear-aligned")
        ELSE IF Gt(v5, v10) THEN set("short-term volume strengthening")
        ELSE set("volume averages balanced")

\* ------------------------------------------------------------ signal scorer
\* A trend weighting of twice the budget: 60 points at most instead of 30.
TrendScoreDoubled(status) ==
  CASE status = "STRONG_BULL" -> 60 [] status = "BULL" -> 52
    [] status = "WEAK_BULL" -> 36 [] status = "CONSOLIDATION" -> 24
    [] status = "WEAK_BEAR" -> 16 [] status = "BEAR" -> 8
    [] status = "STRONG_BEAR" -> 0 [] OTHER -> 24

\* A trend weighting of half the budget: 15 points at most instead of 30.
TrendScoreHalved(status) ==
  CASE status = "STRONG_BULL" -> 15 [] status = "BULL" -> 13
    [] status = "WEAK_BULL" -> 9 [] status = "CONSOLIDATION" -> 6
    [] status = "WEAK_BEAR" -> 4 [] status = "BEAR" -> 2
    [] status = "STRONG_BEAR" -> 0 [] OTHER -> 6

TrendScore(status) ==
  CASE status = "STRONG_BULL" -> 30 [] status = "BULL" -> 26
    [] status = "WEAK_BULL" -> 18 [] status = "CONSOLIDATION" -> 12
    [] status = "WEAK_BEAR" -> 8  [] status = "BEAR" -> 4
    [] status = "STRONG_BEAR" -> 0 [] OTHER -> 12

\* A bias scoring that ignores the bias: always the points and the reason of
\* a price hugging MA5.
BiasScoreFlat(bias) ==
  [score |-> 18, reason |-> <<"price hugs MA5, good entry", Fmt1(bias)>>, risk |-> <<>>]

\* [score, reason, risk]: the points for bias_ma5 and the text appended to
\* the reasons (<<>>: none) or to the risks.
BiasScore(bias) ==
  LET b == Fmt1(bias)
  IN  IF Lt(bias, Zero) THEN
        IF Gt(bias, I(-3))
          THEN [score |-> 20, reason |-> <<"price just under MA5, pullback entry", b>>, risk |-> <<>>]
        ELSE IF Gt(bias, I(-5))
          THEN [score |-> 16, reason |-> <<"price pulls back to MA5, watch support", b>>, risk |-> <<>>]
        ELSE [score |-> 8, reason |-> <<>>, risk |-> <<"bias too large, may break down", b>>]
      ELSE IF Lt(bias, I(2))
        THEN [score |-> 18, reason |-> <<"price hugs MA5, good entry", b>>, risk |-> <<>>]
      ELSE IF Lt(bias, I(BIAS_THRESHOLD))
        THEN [score |-> 14, reason |-> <<"price a little above MA5, small position", b>>, risk |-> <<>>]
      ELSE [score |-> 4, reason |-> <<>>, risk |-> <<"bias too high >5%, never chase", b>>]

VolumeScore(status) ==
  CASE status = "SHRINK_VOLUME_DOWN" -> 15 [] status = "HEAVY_VOLUME_UP" -> 12
    [] status = "NORMAL" -> 10 [] status = "SHRINK_VOLUME_UP" -> 6
    [] status = "HEAVY_VOLUME_DOWN" -> 0 [] OTHER -> 8

\* A MACD weighting that gives BULLISH the 5 points of an unknown status.
MacdScoreBullishUnknown(status) ==
  CASE status = "GOLDEN_CROSS_ZERO" -> 15 [] status = "GOLDEN_CROSS" -> 12
    [] status = "CROSSING_UP" -> 10 [] status = "BEARISH" -> 2
    [] status = "CROSSING_DOWN" -> 0 [] status = "DEATH_CROSS" -> 0 [] OTHER -> 5

MacdScore(status) ==
  CASE status = "GOLDEN_CROSS_ZERO" -> 15 [] status = "GOLDEN_CROSS" -> 12
    [] status = "CROSSING_UP" -> 10 [] status = "BULLISH" -> 8
    [] status = "BEARISH" -> 2 [] status = "CROSSING_DOWN" -> 0
    [] status = "DEATH_CROSS" -> 0 [] OTHER -> 5

RsiScore(status) ==
  CASE status = "OVERSOLD" -> 10 [] status = "STRONG_BUY" -> 8
    [] status = "NEUTRAL" -> 5 [] status = "WEAK" -> 3
    [] status = "OVERBOUGHT" -> 0 [] OTHER -> 5

\* An action read off the score alone, whatever the trend.
BuySignalByScore(score, trend) ==
  IF score >= 75 THEN "STRONG_BUY"
  ELSE IF score >= 60 THEN "BUY"
  ELSE IF score >= 45 THEN "HOLD"
  ELSE IF score >= 30 THEN "WAIT"
  ELSE "SELL"

\* The action for a total score and a trend state.
BuySignalFor(score, trend) ==
  IF score >= 75 /\ trend \in {"STRONG_BULL", "BULL"} THEN "STRONG_BUY"
  ELSE IF score >= 60 /\ trend \in {"STRONG_BULL", "BULL", "WEAK_BULL"} THEN "BUY"
  ELSE IF score >= 45 THEN "HOLD"
  ELSE IF score >= 30 THEN "WAIT"
  ELSE IF trend \in {"BEAR", "STRONG_BEAR"} THEN "STRONG_SELL"
  ELSE "SELL"

\* s with x appended when cond holds
AppendIf(s, cond, x) == IF cond THEN Append(s, x) ELSE s

\* Returns [r, h]: reasons and risks are two new lists, bound to the result
\* at the end.
GenerateSignal(r, h) ==
  LET trend == r.trend_status
      bs == BiasScore(r.bias_ma5)
      score == TrendScore(trend) + bs.score + VolumeScore(r.volume_status)
               + (IF r.support_ma5 THEN 5 ELSE 0) + (IF r.support_ma10 THEN 5 ELSE 0)
               + MacdScore(r.macd_status) + RsiScore(r.rsi_status)
      macd_good == r.macd_status \in {"GOLDEN_CROSS_ZERO", "GOLDEN_CROSS"}
      macd_bad == r.macd_status \in {"DEATH_CROSS", "CROSSING_DOWN"}
      rsi_good == r.rsi_status \in {"OVERSOLD", "STRONG_BUY"}
      rsi_bad == r.rsi_status = "OVERBOUGHT"
      re1 == AppendIf(<<>>, trend \in {"STRONG_BULL", "BULL"},
                      <<"follow the trend, go long", EnumValue("TrendStatus", trend)>>)
      ri1 == AppendIf(<<>>, trend \in {"BEAR", "STRONG_BEAR"},
                      <<"do not go long", EnumValue("TrendStatus", trend)>>)
      re2 == AppendIf(re1, bs.reason # <<>>, bs.reason)
      ri2 == AppendIf(ri1, bs.risk # <<>>, bs.risk)
      re3 == AppendIf(re2, r.volume_status = "SHRINK_VOLUME_DOWN",
                      <<"shrinking pullback, shake-out">>)
      ri3 == AppendIf(ri2, r.volume_status = "HEAVY_VOLUME_DOWN",
                      <<"heavy volume down, mind the risk">>)
      re4 == AppendIf(re3, r.support_ma5, <<"MA5 support holds">>)
      re5 == AppendIf(re4, r.support_ma10, <<"MA10 support holds">>)
      re6 == IF macd_good THEN Append(re5, <<"ok">> \o r.macd_signal)
             ELSE IF macd_bad THEN re5 ELSE Append(re5, r.macd_signal)
      ri6 == AppendIf(ri3, ~macd_good /\ macd_bad, <<"warn">> \o r.macd_signal)
      re7 == IF rsi_good THEN Append(re6, <<"ok">> \o r.rsi_signal)
             ELSE IF rsi_bad THEN re6 ELSE Append(re6, r.rsi_signal)
      ri7 == AppendIf(ri6, ~rsi_good /\ rsi_bad, <<"warn">> \o r.rsi_signal)
      a == NewList(h)
  IN  [r |-> [r EXCEPT !.signal_score = score, !.signal_reasons = a,
                       !.risk_factors = a + 1,
                       !.buy_signal = BuySignalFor(score, trend)],
       h |-> h \o <<re7, ri7>>]

\* TrendAnalysisResult.to_dict on the result r with heap h: the keys the
\* method lists (the enum fields by their .value).
ToDict(r, h) ==
  [code |-> r.code,
   trend_status |-> EnumValue("TrendStatus", r.trend_status),
   ma_alignment |-> r.ma_alignment, trend_strength |-> r.trend_strength,
   ma5 |-> r.ma5, ma10 |-> r.ma10, ma20 |-> r.ma20, ma60 |-> r.ma60,
   current_price |-> r.current_price,
   bias_ma5 |-> r.bias_ma5, bias_ma10 |-> r.bias_ma10, bias_ma20 |-> r.bias_ma20,
   volume_status |-> EnumValue("VolumeStatus", r.volume_status),
   volume_ratio_5d |-> r.volume_ratio_5d, volume_trend |-> r.volume_trend,
   support_ma5 |-> r.support_ma5, support_ma10 |-> r.support_ma10,
   buy_signal |-> EnumValue("BuySignal", r.buy_signal),
   signal_score |-> r.signal_score,
   signal_reasons |-> h[r.signal_reasons], risk_factors |-> h[r.risk_factors],
   macd_dif |-> r.macd_dif, macd_dea |-> r.macd_dea, macd_bar |-> r.macd_bar,
   macd_status |-> EnumValue("MACDStatus", r.macd_status),
   macd_signal |-> r.macd_signal,
   rsi_6 |-> r.rsi_6, rsi_12 |-> r.rsi_12, rsi_24 |-> r.rsi_24,
   rsi_status |-> EnumValue("RSIStatus", r.rsi_status), rsi_signal |-> r.rsi_signal,
   ma250 |-> r.ma250, bias_ma60 |-> r.bias_ma60, bias_ma250 |-> r.bias_ma250,
   kdj_k |-> r.kdj_k, kdj_d |-> r.kdj_d, kdj_j |-> r.kdj_j, kdj_signal |-> r.kdj_signal,
   bb_upper |-> r.bb_upper, bb_middle |-> r.bb_middle, bb_lower |-> r.bb_lower,
   bb_width |-> r.bb_width, bb_position |-> r.bb_position,
   momentum_5d |-> r.momentum_5d, momentum_10d |-> r.momentum_10d,
   momentum_signal |-> r.momentum_signal,
   vol_ma5 |-> r.vol_ma5, vol_ma10 |-> r.vol_ma10, vol_ma20 |-> r.vol_ma20,
   vol_ratio_ma5 |-> r.vol_ratio_ma5, vol_trend |-> r.vol_trend]

\* ------------------------------------------------------------ the pipeline
\* The rows left in the order given.
Unsorted(d) == d

\* df.sort_values('date').reset_index(drop=True): the rows by ascending date
\* (dates distinct).
\* The positions s, in ascending date order, with position i put in place.
Insert(date, s, i) ==
  LET k == Cardinality({j \in 1..Len(s) : date[s[j]] < date[i]})
  IN  SubSeq(s, 1, k) \o <<i>> \o SubSeq(s, k + 1, Len(s))
RECURSIVE OrderOver(_, _, _, _)
\* The ordered positions s of 1..lo-1 with the positions lo..hi put in place.
OrderOver(date, s, lo, hi) ==
  IF lo > hi THEN s
  ELSE IF lo = hi THEN Insert(date, s, lo)
  ELSE LET left == OrderOver(date, s, lo, (lo + hi) \div 2)
       IN  IF Len(left) < lo THEN left
           ELSE OrderOver(date, left, (lo + hi) \div 2 + 1, hi)
\* The positions 1..i of the sequence `date`, by ascending date.
OrderUpTo(date, i) == OrderOver(date, <<>>, 1, i)
SortByDate(d) ==
  LET ord == OrderUpTo(d["date"], NRows(d))
  IN  [c \in DOMAIN d |-> [i \in 1..NRows(d) |-> d[c][ord[i]]] \o <<>>]

\* An order of the steps with the scorer ahead of the last classifier.
PipelineScoringEarly ==
  << "sort_values",
     "_calculate_mas", "_calculate_macd", "_calculate_rsi", "_calculate_kdj",
     "_calculate_bollinger_bands", "_calculate_momentum", "_calculate_volume_ma",
     "extract_mas", "_analyze_trend", "_calculate_bias", "extract_indicators",
     "_analyze_volume", "_analyze_support_resistance", "_analyze_macd",
     "_analyze_rsi", "_analyze_kdj", "_analyze_bollinger_bands",
     "_analyze_momentum", "_generate_signal", "_analyze_volume_ma" >>

\* The steps of analyze on a series of MinBars or more bars, in program order.
Pipeline ==
  << "sort_values",
     "_calculate_mas", "_calculate_macd", "_calculate_rsi", "_calculate_kdj",
     "_calculate_bollinger_bands", "_calculate_momentum", "_calculate_volume_ma",
     "extract_mas", "_analyze_trend", "_calculate_bias", "extract_indicators",
     "_analyze_volume", "_analyze_support_resistance", "_analyze_macd",
     "_analyze_rsi", "_analyze_kdj", "_analyze_bollinger_bands",
     "_analyze_momentum", "_analyze_volume_ma", "_generate_signal" >>

Calculators ==
  {"_calculate_mas", "_calculate_macd", "_calculate_rsi", "_calculate_kdj",
   "_calculate_bollinger_bands", "_calculate_momentum", "_calculate_volume_ma"}
Classifiers ==
  {"_analyze_trend", "_calculate_bias", "_analyze_volume",
   "_analyze_support_resistance", "_analyze_macd", "_analyze_rsi", "_analyze_kdj",
   "_analyze_bollinger_bands", "_analyze_momentum", "_analyze_volume_ma"}

\* The DataFrame columns and the result fields the code of a step reads
\* (what the step itself wrote earlier in its own body left out).
Reads(name) ==
  CASE name = "sort_values" -> {"date", "open", "high", "low", "close", "volume"}
    [] name = "_calculate_mas" -> {"close"}
    [] name = "_calculate_macd" -> {"close"}
    [] name = "_calculate_rsi" -> {"close"}
    [] name = "_calculate_kdj" -> {"low", "high", "close"}
    [] name = "_calculate_bollinger_bands" -> {"close"}
    [] name = "_calculate_momentum" -> {"close"}
    [] name = "_calculate_volume_ma" -> {"volume"}
    [] name = "extract_mas" -> {"close", "MA5", "MA10", "MA20", "MA60", "MA250"}
    [] name = "_analyze_trend" -> {"ma5", "ma10", "ma20", "MA5", "MA20"}
    [] name = "_calculate_bias" ->
         {"current_price", "ma5", "ma10", "ma20", "ma60", "ma250"}
    [] name = "extract_indicators" ->
         {"KDJ_K", "KDJ_D", "KDJ_J", "BB_UPPER", "BB_MIDDLE", "BB_LOWER",
          "MOMENTUM_5D", "MOMENTUM_10D", "VOL_MA5", "VOL_MA10", "VOL_MA20"}
    [] name = "_analyze_volume" -> {"volume", "close"}
    [] name = "_analyze_support_resistance" ->
         {"current_price", "ma5", "ma10", "ma20", "high"}
    [] name = "_analyze_macd" -> {"MACD_DIF", "MACD_DEA", "MACD_BAR"}
    [] name = "_analyze_rsi" -> {"RSI_6", "RSI_12", "RSI_24"}
    [] name = "_analyze_kdj" -> {"kdj_k", "kdj_d", "kdj_j"}
    [] name = "_analyze_bollinger_bands" ->
         {"current_price", "bb_upper", "bb_middle", "bb_lower"}
    [] name = "_analyze_momentum" -> {"momentum_5d", "momentum_10d"}
    [] name = "_analyze_volume_ma" -> {"volume", "vol_ma5", "vol_ma10", "vol_ma20"}
    [] name = "_generate_signal" ->
         {"trend_status", "bias_ma5", "volume_status", "support_ma5", "support_ma10",
          "macd_status", "macd_signal", "rsi_status", "rsi_signal"}

\* The DataFrame columns and the result fields the code of a step assigns.
Writes(name) ==
  CASE name = "sort_values" -> {"date", "open", "high", "low", "close", "volume"}
    [] name = "_calculate_mas" -> {"MA5", "MA10", "MA20", "MA60", "MA250"}
    [] name = "_calculate_macd" -> {"MACD_DIF", "MACD_DEA", "MACD_BAR"}
    [] name = "_calculate_rsi" -> {"RSI_6", "RSI_12", "RSI_24"}
    [] name = "_calculate_kdj" -> {"KDJ_K", "KDJ_D", "KDJ_J"}
    [] name = "_calculate_bollinger_bands" -> {"BB_MIDDLE", "BB_UPPER", "BB_LOWER"}
    [] name = "_calculate_momentum" -> {"MOMENTUM_5D", "MOMENTUM_10D"}
    [] name = "_calculate_volume_ma" -> {"VOL_MA5", "VOL_MA10", "VOL_MA20"}
    [] name = "extract_mas" -> {"current_price", "ma5", "ma10", "ma20", "ma60", "ma250"}
    [] name = "_analyze_trend" -> {"trend_status", "ma_alignment", "trend_strength"}
    [] name = "_calculate_bias" ->
         {"bias_ma5", "bias_ma10", "bias_ma20", "bias_ma60", "bias_ma250"}
    [] name = "extract_indicators" ->
         {"kdj_k", "kdj_d", "kdj_j", "bb_upper", "bb_middle", "bb_lower",
          "momentum_5d", "momentum_10d", "vol_ma5", "vol_ma10", "vol_ma20"}
    [] name = "_analyze_volume" -> {"volume_ratio_5d", "volume_status", "volume_trend"}
    [] name = "_analyze_support_resistance" ->
         {"support_ma5", "support_ma10", "support_levels", "resistance_levels"}
    [] name = "_analyze_macd" ->
         {"macd_dif", "macd_dea", "macd_bar", "macd_status", "macd_signal"}
    [] name = "_analyze_rsi" -> {"rsi_6", "rsi_12", "rsi_24", "rsi_status", "rsi_signal"}
    [] name = "_analyze_kdj" -> {"kdj_signal"}
    [] name = "_analyze_bollinger_bands" -> {"bb_width", "bb_position"}
    [] name = "_analyze_momentum" -> {"momentum_signal"}
    [] name = "_analyze_volume_ma" -> {"vol_ratio_ma5", "vol_trend"}
    [] name = "_generate_signal" ->
         {"signal_score", "signal_reasons", "risk_factors", "buy_signal"}

IndexOf(seq, x) == CHOOSE i \in 1..Len(seq) : seq[i] = x
\* Where control goes after step `name`.
After(name) ==
  LET i == IndexOf(Pipeline, name)
  IN  IF i = Len(Pipeline) THEN "done" ELSE Pipeline[i + 1]

\* The frame c with a new DataFrame, a new result, a new result and heap.
OnDf(c, x) == [c EXCEPT !.df = x]
OnR(c, x) == [c EXCEPT !.r = x]
OnRH(c, x) == [c EXCEPT !.r = x.r, !.h = x.h]

\* One step on a call's frame c = [df, r, h]: its DataFrame, its result and
\* the heap.
ApplyStage(name, c) ==
      CASE name = "sort_values" -> OnDf(c, SortByDate(c.df))
        [] name = "_calculate_mas" -> OnDf(c, CalculateMas(c.df))
        [] name = "_calculate_macd" -> OnDf(c, CalculateMacd(c.df))
        [] name = "_calculate_rsi" -> OnDf(c, CalculateRsi(c.df))
        [] name = "_calculate_kdj" -> OnDf(c, CalculateKdj(c.df))
        [] name = "_calculate_bollinger_bands" -> OnDf(c, CalculateBollingerBands(c.df))
        [] name = "_calculate_momentum" -> OnDf(c, CalculateMomentum(c.df))
        [] name = "_calculate_volume_ma" -> OnDf(c, CalculateVolumeMa(c.df))
        [] name = "extract_mas" -> OnR(c, ExtractMas(c.df, c.r))
        [] name = "_analyze_trend" -> OnR(c, AnalyzeTrend(c.df, c.r))
        [] name = "_calculate_bias" -> OnR(c, CalculateBias(c.r))
        [] name = "extract_indicators" -> OnR(c, ExtractIndicators(c.df, c.r))
        [] name = "_analyze_volume" -> OnR(c, AnalyzeVolume(c.df, c.r))
        [] name = "_analyze_support_resistance" ->
             OnRH(c, AnalyzeSupportResistance(c.df, c.r, c.h))
        [] name = "_analyze_macd" -> OnR(c, AnalyzeMacd(c.df, c.r))
        [] name = "_analyze_rsi" -> OnR(c, AnalyzeRsi(c.df, c.r))
        [] name = "_analyze_kdj" -> OnR(c, AnalyzeKdj(c.df, c.r))
        [] name = "_analyze_bollinger_bands" -> OnR(c, AnalyzeBollingerBands(c.df, c.r))
        [] name = "_analyze_momentum" -> OnR(c, AnalyzeMomentum(c.df, c.r))
        [] name = "_analyze_volume_ma" -> OnR(c, AnalyzeVolumeMa(c.df, c.r))
        [] name = "_generate_signal" -> OnRH(c, GenerateSignal(c.r, c.h))

\* What the caller passes as df: a DataFrame with its rows, or None.
DataFrame(rows) == [isNone |-> FALSE, rows |-> rows]
Empty == [date |-> <<>>, open |-> <<>>, high |-> <<>>, low |-> <<>>, close |-> <<>>,
          volume |-> <<>>]
None == [isNone |-> TRUE, rows |-> Empty]
\* A guard that lets every series with a bar through.
InsufficientNoneOrEmpty(d) == d.isNone \/ NRows(d.rows) = 0
\* df is None or df.empty or len(df) < 20
Insufficient(d) == d.isNone \/ NRows(d.rows) = 0 \/ NRows(d.rows) < MinBars

\* analyze(df, code) run from entry to return with nothing else running, on
\* the caller's object obj and an empty heap: the result as returned.
RECURSIVE RunFrom(_, _)
RunFrom(c, i) ==
  IF i > Len(Pipeline) THEN c ELSE RunFrom(ApplyStage(Pipeline[i], c), i + 1)
RunAlone(obj, stock) ==
  LET c == NewResult(stock, <<>>)
  IN  IF Insufficient(obj)
        THEN Deref(c.r, ListAppend(c.h, c.r.risk_factors, InsufficientRisk))
      ELSE LET e == RunFrom([df |-> obj.rows, r |-> c.r, h |-> c.h], 1)
           IN  Deref(e.r, e.h)

\* ------------------------------------------------------------------ state
Workers == {1, 2}
Unset == [unset |-> TRUE]

VARIABLES
  store,      \* the caller's objects, by id: a DataFrame or None
  arg,        \* arg[w]: the id of the DataFrame call w is given
  code,       \* code[w]: the stock code call w is given
  pc,         \* pc[w]: "idle", "call", a step of Pipeline, "done", "serialized"
  df,         \* df[w]: the rows of the local variable df of call w
  result,     \* result[w]: the TrendAnalysisResult of call w (lists by address)
  heap,       \* the Python lists, by address
  log,        \* log[w]: the steps call w has run, in order
  returned,   \* returned[w]: the result as the caller received it
  flat        \* flat[w]: what to_dict returned

vars == <<store, arg, code, pc, df, result, heap, log, returned, flat>>

\* A sort in place: the caller's object id holds the sorted rows afterwards.
StoreSortedInPlace(s, id) == [s EXCEPT ![id].rows = SortByDate(s[id].rows)]

\* The caller's DataFrames after sort_values ran on object id: sort_values
\* returns a new object and leaves its operand alone.
StoreAfterSort(s, id) == s

\* analyze(df, code), entry, on data that is missing or too short: the result
\* is constructed, gets its one risk factor and is returned.
AnalyzeInsufficient(w) ==
  /\ pc[w] = "call"
  /\ Insufficient(store[arg[w]])
  /\ LET c == NewResult(code[w], heap)
         h2 == ListAppend(c.h, c.r.risk_factors, InsufficientRisk)
     IN  /\ result' = [result EXCEPT ![w] = c.r]
         /\ heap' = h2
         /\ returned' = [returned EXCEPT ![w] = Deref(c.r, h2)]
  /\ pc' = [pc EXCEPT ![w] = "done"]
  /\ UNCHANGED <<store, arg, code, df, log, flat>>

\* analyze(df, code), entry, on MinBars or more bars.
AnalyzeBegin(w) ==
  /\ pc[w] = "call"
  /\ ~Insufficient(store[arg[w]])
  /\ LET c == NewResult(code[w], heap)
     IN  /\ result' = [result EXCEPT ![w] = c.r]
         /\ heap' = c.h
  /\ df' = [df EXCEPT ![w] = store[arg[w]].rows]
  /\ pc' = [pc EXCEPT ![w] = Pipeline[1]]
  /\ UNCHANGED <<store, arg, code, log, returned, flat>>

\* The frame of call w.
Frame(w) == [df |-> df[w], r |-> result[w], h |-> heap]

\* Step `name` of call w takes its frame to c.
Step(w, name, c) ==
  /\ pc[w] = name
  /\ df' = [df EXCEPT ![w] = c.df]
  /\ result' = [result EXCEPT ![w] = c.r]
  /\ heap' = c.h
  /\ returned' = IF After(name) = "done"
                 THEN [returned EXCEPT ![w] = Deref(c.r, c.h)]
                 ELSE returned
  /\ pc' = [pc EXCEPT ![w] = After(name)]
  /\ log' = [log EXCEPT ![w] = Append(@, name)]
  /\ UNCHANGED <<arg, code, flat>>

SortValues(w) ==
  /\ Step(w, "sort_values", OnDf(Frame(w), SortByDate(df[w])))
  /\ store' = StoreAfterSort(store, arg[w])
DoCalculateMas(w) ==
  /\ Step(w, "_calculate_mas", OnDf(Frame(w), CalculateMas(df[w])))
  /\ UNCHANGED store
DoCalculateMacd(w) ==
  /\ Step(w, "_calculate_macd", OnDf(Frame(w), CalculateMacd(df[w])))
  /\ UNCHANGED store
DoCalculateRsi(w) ==
  /\ Step(w, "_calculate_rsi", OnDf(Frame(w), CalculateRsi(df[w])))
  /\ UNCHANGED store
DoCalculateKdj(w) ==
  /\ Step(w, "_calculate_kdj", OnDf(Frame(w), CalculateKdj(df[w])))
  /\ UNCHANGED store
DoCalculateBollingerBands(w) ==
  /\ Step(w, "_calculate_bollinger_bands", OnDf(Frame(w), CalculateBollingerBands(df[w])))
  /\ UNCHANGED store
DoCalculateMomentum(w) ==
  /\ Step(w, "_calculate_momentum", OnDf(Frame(w), CalculateMomentum(df[w])))
  /\ UNCHANGED store
DoCalculateVolumeMa(w) ==
  /\ Step(w, "_calculate_volume_ma", OnDf(Frame(w), CalculateVolumeMa(df[w])))
  /\ UNCHANGED store
DoExtractMas(w) ==
  /\ Step(w, "extract_mas", OnR(Frame(w), ExtractMas(df[w], result[w])))
  /\ UNCHANGED store
DoAnalyzeTrend(w) ==
  /\ Step(w, "_analyze_trend", OnR(Frame(w), AnalyzeTrend(df[w], result[w])))
  /\ UNCHANGED store
DoCalculateBias(w) ==
  /\ Step(w, "_calculate_bias", OnR(Frame(w), CalculateBias(result[w])))
  /\ UNCHANGED store
DoExtractIndicators(w) ==
  /\ Step(w, "extract_indicators", OnR(Frame(w), ExtractIndicators(df[w], result[w])))
  /\ UNCHANGED store
DoAnalyzeVolume(w) ==
  /\ Step(w, "_analyze_volume", OnR(Frame(w), AnalyzeVolume(df[w], result[w])))
  /\ UNCHANGED store
DoAnalyzeSupportResistance(w) ==
  /\ Step(w, "_analyze_support_resistance", OnRH(Frame(w), AnalyzeSupportResistance(df[w], result[w], heap)))
  /\ UNCHANGED store
DoAnalyzeMacd(w) ==
  /\ Step(w, "_analyze_macd", OnR(Frame(w), AnalyzeMacd(df[w], result[w])))
  /\ UNCHANGED store
DoAnalyzeRsi(w) ==
  /\ Step(w, "_analyze_rsi", OnR(Frame(w), AnalyzeRsi(df[w], result[w])))
  /\ UNCHANGED store
DoAnalyzeKdj(w) ==
  /\ Step(w, "_analyze_kdj", OnR(Frame(w), AnalyzeKdj(df[w], result[w])))
  /\ UNCHANGED store
DoAnalyzeBollingerBands(w) ==
  /\ Step(w, "_analyze_bollinger_bands", OnR(Frame(w), AnalyzeBollingerBands(df[w], result[w])))
  /\ UNCHANGED store
DoAnalyzeMomentum(w) ==
  /\ Step(w, "_analyze_momentum", OnR(Frame(w), AnalyzeMomentum(df[w], result[w])))
  /\ UNCHANGED store
DoAnalyzeVolumeMa(w) ==
  /\ Step(w, "_analyze_volume_ma", OnR(Frame(w), AnalyzeVolumeMa(df[w], result[w])))
  /\ UNCHANGED store
DoGenerateSignal(w) ==
  /\ Step(w, "_generate_signal", OnRH(Frame(w), GenerateSignal(result[w], heap)))
  /\ UNCHANGED store

\* result.to_dict(), called on a returned result.
CallToDict(w) ==
  /\ pc[w] = "done"
  /\ flat' = [flat EXCEPT ![w] = ToDict(result[w], heap)]
  /\ pc' = [pc EXCEPT ![w] = "serialized"]
  /\ UNCHANGED <<store, arg, code, df, result, heap, log, returned>>

Next ==
  \E w \in Workers :
    \/ AnalyzeInsufficient(w)
    \/ AnalyzeBegin(w)
    \/ SortValues(w)
    \/ DoCalculateMas(w)
    \/ DoCalculateMacd(w)
    \/ DoCalculateRsi(w)
    \/ DoCalculateKdj(w)
    \/ DoCalculateBollingerBands(w)
    \/ DoCalculateMomentum(w)
    \/ DoCalculateVolumeMa(w)
    \/ DoExtractMas(w)
    \/ DoAnalyzeTrend(w)
    \/ DoCalculateBias(w)
    \/ DoExtractIndicators(w)
    \/ DoAnalyzeVolume(w)
    \/ DoAnalyzeSupportResistance(w)
    \/ DoAnalyzeMacd(w)
    \/ DoAnalyzeRsi(w)
    \/ DoAnalyzeKdj(w)
    \/ DoAnalyzeBollingerBands(w)
    \/ DoAnalyzeMomentum(w)
    \/ DoAnalyzeVolumeMa(w)
    \/ DoGenerateSignal(w)
    \/ CallToDict(w)

\* ----------------------------------------------------------------- inputs
\* A daily series of n bars, dated 1..n.  The close sits at Base through bar
\* n-10, then at Base+dMid (5 bars), Base+dB3 (3 bars), Base+dPrev (the bar
\* before the latest) and Base+dLast (the latest); the volume is pv on every
\* bar but the latest, where it is lv; high and low are wick away from close.
MakeSeries(n, dMid, dB3, dPrev, dLast, pv, lv, wick) ==
  LET k(i) == n - i
      c == [i \in 1..n |->
              Base + (IF k(i) = 0 THEN dLast ELSE IF k(i) = 1 THEN dPrev
                      ELSE IF k(i) <= 4 THEN dB3 ELSE IF k(i) <= 9 THEN dMid ELSE 0)]
      col(f(_)) == [i \in 1..n |-> f(i)] \o <<>>
      date(i) == i
      close(i) == c[i]
      high(i) == c[i] + wick
      low(i) == c[i] - wick
      volume(i) == IF k(i) = 0 THEN lv ELSE pv
  IN  [date |-> col(date), open |-> col(close), high |-> col(high), low |-> col(low),
       close |-> col(close), volume |-> col(volume)]

Lengths == {MinBars - 1, MinBars, MinBars + 4, MinBars + MaxExtra}
MidSteps == {-10, 0, 10}
B3Steps == {-10, 0, 10}
PrevSteps == {-30, -2, 0, 2, 30}
LastSteps == {-2, 0, 2}
Volumes == {<<0, BaseVol>>, <<BaseVol, BaseVol \div 2>>, <<BaseVol, BaseVol>>,
            <<BaseVol, 2 * BaseVol>>}
Wicks == {1}

Family ==
  {MakeSeries(n, m, b, p, p + l, v[1], v[2], k) :
     n \in Lengths, m \in MidSteps, b \in B3Steps, p \in PrevSteps, l \in LastSteps,
     v \in Volumes, k \in Wicks}

\* One call, on any input of the family, on an empty series or on None.
Init ==
  /\ \E s \in {DataFrame(x) : x \in Family \cup {Empty}} \cup {None} : store = <<s, None>>
  /\ arg = <<1, 2>>
  /\ code = <<"600519", "000001">>
  /\ pc = <<"call", "idle">>
  /\ df = <<Empty, Empty>>
  /\ result = <<Unset, Unset>>
  /\ heap = <<>>
  /\ log = <<<<>>, <<>>>>
  /\ returned = <<Unset, Unset>>
  /\ flat = <<Unset, Unset>>

Spec == Init /\ [][Next]_vars

\* ------------------------------------------------- two concurrent callers
\* The rows of d at the positions perm[1], perm[2], ...
Permute(d, perm) == [c \in DOMAIN d |-> [i \in 1..NRows(d) |-> d[c][perm[i]]] \o <<>>]
MaxShift == 2
\* Orders of n bars: reversed, rotated by 1..MaxShift, the last two swapped.
Orders(n) ==
  {[i \in 1..n |-> n + 1 - i], [i \in 1..n |-> IF i = n THEN n - 1 ELSE IF i = n - 1 THEN n ELSE i]}
  \cup {[i \in 1..n |-> ((i - 1 + k) % n) + 1] : k \in 1..MaxShift}
\* A rising series of MinBars bars and a falling one of MinBars + MaxExtra.
ParFamily ==
  {MakeSeries(MinBars, 10, 0, 30, 28, BaseVol, BaseVol \div 2, 1),
   MakeSeries(MinBars + MaxExtra, 10, 0, -30, -32, BaseVol, BaseVol \div 2, 1)}
Codes == {"600519", "000001"}

\* Two calls at once, as two workers of a caller make them: on one DataFrame
\* object, or on two objects, the second a copy of the first, the same bars
\* in another order, a series that is too short, or None.
InitPar ==
  /\ \E a \in ParFamily :
       \E b \in {a, MakeSeries(MinBars - 1, 0, 0, 0, 0, BaseVol, BaseVol, 1)}
                \cup {Permute(a, o) : o \in Orders(NRows(a))} :
         \/ store = <<DataFrame(a), DataFrame(b)>> /\ arg = <<1, 2>>
         \/ b = a /\ store = <<DataFrame(a), None>> /\ arg \in {<<1, 1>>, <<1, 2>>}
  /\ code \in {<<"600519", c>> : c \in Codes}
  /\ pc = <<"call", "call">>
  /\ df = <<Empty, Empty>>
  /\ result = <<Unset, Unset>>
  /\ heap = <<>>
  /\ log = <<<<>>, <<>>>>
  /\ returned = <<Unset, Unset>>
  /\ flat = <<Unset, Unset>>

SpecPar == InitPar /\ [][Next]_vars

\* ------------------------------------------------------------- properties
\* Call w has returned.
Done(w) == pc[w] \in {"done", "serialized"}
\* Call w was given None, an empty series or fewer than 20 bars.
TooShort(w) == store[arg[w]].isNone \/ Len(store[arg[w]].rows["close"]) < 20
\* Call w has returned from the full pipeline.
Full(w) == Done(w) /\ ~TooShort(w)

\* C1: for every call of analyze, on 20 or more bars and on a missing, empty
\* or shorter series, the returned signal_score is an integer in [0,100] and
\* buy_signal is one of the six BuySignal variants.
C1_ScoreAndActionInRange ==
  \A w \in Workers :
    Done(w) =>
      /\ returned[w].signal_score \in 0..100
      /\ returned[w].buy_signal \in
           {"STRONG_BUY", "BUY", "HOLD", "WAIT", "SELL", "STRONG_SELL"}
\* A call on 20 or more bars has returned a score of 80 or more.
C1_Witness ==
  Full(1) /\ returned[1].signal_score >= 80 /\ returned[1].buy_signal = "STRONG_BUY"

\* The action the decision table of the scorer gives for a score and a trend.
ActionTable(score, trend) ==
  CASE score >= 75 /\ trend \in {"STRONG_BULL", "BULL"} -> "STRONG_BUY"
    [] score >= 60 /\ trend \in {"STRONG_BULL", "BULL", "WEAK_BULL"}
       /\ ~(score >= 75 /\ trend \in {"STRONG_BULL", "BULL"}) -> "BUY"
    [] score >= 45 /\ ~(score >= 60 /\ trend \in {"STRONG_BULL", "BULL", "WEAK_BULL"}) -> "HOLD"
    [] score >= 30 /\ score < 45 -> "WAIT"
    [] score < 30 /\ trend \in {"BEAR", "STRONG_BEAR"} -> "STRONG_SELL"
    [] score < 30 /\ trend \notin {"BEAR", "STRONG_BEAR"} -> "SELL"

\* C2: on a call that ran the scorer, the final action is the one the table
\* gives for (signal_score, trend_status): >=75 and STRONG_BULL/BULL is
\* STRONG_BUY, else >=60 and STRONG_BULL/BULL/WEAK_BULL is BUY, else >=45 is
\* HOLD, else >=30 is WAIT, else BEAR/STRONG_BEAR is STRONG_SELL, else SELL;
\* a score of 60 or more with a trend that is not bullish is HOLD.
C2_ActionFromScoreAndTrend ==
  \A w \in Workers :
    Full(w) =>
      LET r == returned[w]
      IN  /\ r.buy_signal = ActionTable(r.signal_score, r.trend_status)
          /\ (r.signal_score >= 60
              /\ r.trend_status \notin {"STRONG_BULL", "BULL", "WEAK_BULL"})
             => r.buy_signal = "HOLD"
\* A call has scored 60 or more in a consolidation and returned HOLD.
C2_Witness ==
  /\ Full(1)
  /\ returned[1].signal_score >= 60
  /\ returned[1].trend_status = "CONSOLIDATION"
  /\ returned[1].buy_signal = "HOLD"

\* C3: a call on fewer than 20 bars, on an empty series or on None returns a
\* result with exactly one risk factor (the insufficient-data message), score
\* 0, no reasons, no support and no resistance levels, and the classification
\* fields at their defaults (CONSOLIDATION, NORMAL, BULLISH, NEUTRAL, WAIT);
\* and the call does return.
C3_ShortSeriesDegrades ==
  \A w \in Workers :
    /\ (pc[w] = "call" /\ TooShort(w)) => ENABLED AnalyzeInsufficient(w)
    /\ (Done(w) /\ TooShort(w)) =>
         LET r == returned[w]
         IN  /\ Len(r.risk_factors) = 1
             /\ r.risk_factors[1] = InsufficientRisk
             /\ r.signal_score = 0
             /\ r.signal_reasons = <<>>
             /\ r.support_levels = <<>>
             /\ r.resistance_levels = <<>>
             /\ r.trend_status = "CONSOLIDATION"
             /\ r.volume_status = "NORMAL"
             /\ r.macd_status = "BULLISH"
             /\ r.rsi_status = "NEUTRAL"
             /\ r.buy_signal = "WAIT"
             /\ log[w] = <<>>
\* A call on a series of 19 bars has returned.
C3_Witness ==
  Done(1) /\ ~store[arg[1]].isNone /\ Len(store[arg[1]].rows["close"]) = 19

\* C4: whenever bias_ma5 is above 5 (percent), the returned action is
\* neither BUY nor STRONG_BUY.
C4_NoBuyAboveBiasThreshold ==
  \A w \in Workers :
    (Full(w) /\ Gt(returned[w].bias_ma5, I(5))) =>
      returned[w].buy_signal \notin {"BUY", "STRONG_BUY"}

\* The points the bias table gives, and whether the entry is a risk factor.
BiasTable(b) ==
  CASE Lt(I(-3), b) /\ Lt(b, Zero) -> [points |-> 20, risk |-> FALSE]
    [] Lt(I(-5), b) /\ Le(b, I(-3)) -> [points |-> 16, risk |-> FALSE]
    [] Le(b, I(-5)) -> [points |-> 8, risk |-> TRUE]
    [] Le(Zero, b) /\ Lt(b, I(2)) -> [points |-> 18, risk |-> FALSE]
    [] Le(I(2), b) /\ Lt(b, I(5)) -> [points |-> 14, risk |-> FALSE]
    [] Ge(b, I(5)) -> [points |-> 4, risk |-> TRUE]
BiasRiskTexts == {"bias too large, may break down", "bias too high >5%, never chase"}
BiasReasonTexts ==
  {"price just under MA5, pullback entry", "price pulls back to MA5, watch support",
   "price hugs MA5, good entry", "price a little above MA5, small position"}
\* The score without its bias part.
ScoreWithoutBias(r) ==
  TrendScore(r.trend_status) + VolumeScore(r.volume_status)
  + (IF r.support_ma5 THEN 5 ELSE 0) + (IF r.support_ma10 THEN 5 ELSE 0)
  + MacdScore(r.macd_status) + RsiScore(r.rsi_status)
\* Some entry of the list starts with one of the texts.
Mentions(list, texts) == \E i \in DOMAIN list : list[i][1] \in texts

\* C5: the bias part of the score follows the table on bias_ma5 (20, 16,
\* 8, 18, 14, 4); a bias risk factor is appended in exactly the cases
\* bias <= -5 and bias >= 5, a bias reason in exactly the other four.
C5_BiasSubScore ==
  \A w \in Workers :
    Full(w) =>
      LET r == returned[w]
          t == BiasTable(r.bias_ma5)
      IN  /\ r.signal_score - ScoreWithoutBias(r) = t.points
          /\ Mentions(r.risk_factors, BiasRiskTexts) <=> t.risk
          /\ Mentions(r.signal_reasons, BiasReasonTexts) <=> ~t.risk
\* A call with bias_ma5 at 5 or more has returned, with the risk factor.
C5_Witness ==
  /\ Full(1)
  /\ Ge(returned[1].bias_ma5, I(5))
  /\ Mentions(returned[1].risk_factors, {"bias too high >5%, never chase"})

\* C6: the mapping to_dict returns has every field of TrendAnalysisResult
\* as a key, support_levels, resistance_levels, ma250, bias_ma60 and
\* bias_ma250 among them.
C6_ToDictHasEveryField ==
  \A w \in Workers :
    pc[w] = "serialized" => DOMAIN result[w] \subseteq DOMAIN flat[w]

\* The steps call w ran before its i-th.
Before(w, i) == {log[w][k] : k \in 1..(i - 1)}
\* The columns of the DataFrame and the fields of the result.
IsColumn(x) == x \notin DOMAIN ResultWithLists("", 0, 0, 0, 0)

\* C7: within a call on 20 or more bars, every indicator calculator has run
\* before any classifier runs and every classifier has run before
\* _generate_signal runs; no step reads a column or field that a later step
\* writes, and each step finds the columns it reads in the DataFrame.
C7_StrictPipeline ==
  \A w \in Workers :
    /\ \A i \in DOMAIN log[w] :
         /\ log[w][i] \in Classifiers => Calculators \subseteq Before(w, i)
         /\ log[w][i] = "_generate_signal" => Classifiers \subseteq Before(w, i)
         /\ \A j \in DOMAIN log[w] :
              i < j => Reads(log[w][i]) \cap Writes(log[w][j]) = {}
    /\ pc[w] \in Classifiers => Calculators \subseteq Before(w, Len(log[w]) + 1)
    /\ pc[w] = "_generate_signal" => Classifiers \subseteq Before(w, Len(log[w]) + 1)
    /\ pc[w] \in Range(Pipeline) =>
         {x \in Reads(pc[w]) : IsColumn(x)} \subseteq DOMAIN df[w]
    /\ Full(w) => Len(log[w]) = Len(Pipeline)
\* A call has run the scorer after all ten classifiers and returned.
C7_Witness ==
  /\ Full(1)
  /\ log[1][Len(log[1])] = "_generate_signal"
  /\ Classifiers \subseteq Before(1, Len(log[1]))

\* The addresses of the lists the result of call w holds.
ListsOf(w) == IF result[w] = Unset THEN {} ELSE {result[w][f] : f \in ListFields}

\* C8: two analyze calls by independent workers, in any interleaving: no
\* step changes a DataFrame of the caller, the two results hold no list in
\* common, every returned result is the result of the same call run alone,
\* and stays so whatever the other call does afterwards.
C8_NoInterference ==
  /\ [][store' = store]_vars
  /\ [][\A w \in Workers : Done(w) => returned'[w] = returned[w]]_vars
  /\ [](/\ \A w \in Workers :
             /\ pc[w] = "done" => returned[w] = RunAlone(store[arg[w]], code[w])
             /\ Done(w) => Deref(result[w], heap) = returned[w]
        /\ ListsOf(1) \cap ListsOf(2) = {})
\* Both calls have returned, from the full pipeline, on two DataFrames of
\* which the second was given out of date order.
C8_Witness ==
  /\ Full(1) /\ Full(2)
  /\ arg[1] # arg[2]
  /\ store[arg[2]].rows["date"] # store[arg[1]].rows["date"]
  /\ returned[1].support_levels # <<>>

\* d is in ascending date order.
Sorted(d) == \A i \in 1..(NRows(d) - 1) : d["date"][i] < d["date"][i + 1]

\* C9: two calls of analyze on the same sorted series with the same code
\* return results equal in every field, the lists with the same entries in
\* the same order.
C9_SameInputSameResult ==
  \A v \in Workers, w \in Workers :
    (/\ Done(v) /\ Done(w)
     /\ code[v] = code[w]
     /\ store[arg[v]] = store[arg[w]]
     /\ ~store[arg[v]].isNone /\ Sorted(store[arg[v]].rows))
    => returned[v] = returned[w]
\* Two calls on one sorted series of 20 or more bars with one code have
\* returned, with support levels.
C9_Witness ==
  /\ Full(1) /\ Full(2)
  /\ code[1] = code[2]
  /\ store[arg[1]] = store[arg[2]]
  /\ Sorted(store[arg[1]].rows)
  /\ returned[2].support_levels # <<>>

\* The bars of d, as a set.
Bars(d) == {[c \in DOMAIN d |-> d[c][i]] : i \in 1..NRows(d)}
\* d has no date twice.
DistinctDates(d) == Cardinality({d["date"][i] : i \in 1..NRows(d)}) = NRows(d)

\* C10: for bars with distinct dates, the result of analyze on the bars in
\* any order equals its result on the bars in ascending date order.
C10_OrderOfBarsIrrelevant ==
  \A v \in Workers, w \in Workers :
    (/\ Done(v) /\ Done(w)
     /\ code[v] = code[w]
     /\ ~store[arg[v]].isNone /\ ~store[arg[w]].isNone
     /\ Sorted(store[arg[v]].rows)
     /\ DistinctDates(store[arg[w]].rows)
     /\ NRows(store[arg[w]].rows) = NRows(store[arg[v]].rows)
     /\ Bars(store[arg[w]].rows) = Bars(store[arg[v]].rows))
    => returned[w] = returned[v]
\* A call on 20 or more bars in descending date order and a call on the same
\* bars in ascending order have returned.
C10_Witness ==
  /\ Full(1) /\ Full(2)
  /\ code[1] = code[2]
  /\ Sorted(store[arg[1]].rows)
  /\ Bars(store[arg[2]].rows) = Bars(store[arg[1]].rows)
  /\ \A i \in 1..(NRows(store[arg[2]].rows) - 1) :
       store[arg[2]].rows["date"][i] > store[arg[2]].rows["date"][i + 1]

\* The sum of the falls (of the rises) of the close over the p bars ending
\* at bar i, the first bar counting as no change.
FallsOver(close, i, p) ==
  SumTo([j \in 1..i |-> IF j > 1 /\ close[j] < close[j - 1]
                         THEN close[j - 1] - close[j] ELSE 0], i - p + 1, i)
RisesOver(close, i, p) ==
  SumTo([j \in 1..i |-> IF j > 1 /\ close[j] > close[j - 1]
                         THEN close[j] - close[j - 1] ELSE 0], i - p + 1, i)
RsiPeriods == {<<"RSI_6", 6>>, <<"RSI_12", 12>>, <<"RSI_24", 24>>}

\* C11: for each RSI horizon p of 6, 12 and 24 and every bar with p bars of
\* history, if the falls over the trailing p bars sum to zero, the RSI of
\* the bar is 50, whether the rises sum to zero or not.
C11_RsiZeroLossIsNeutral ==
  \A w \in Workers :
    "RSI_24" \in DOMAIN df[w] =>
      \A c \in RsiPeriods :
        \A i \in c[2]..NRows(df[w]) :
          FallsOver(df[w]["close"], i, c[2]) = 0 => df[w][c[1]][i] = I(50)

\* The close of the series call w was given is the same on every bar.
ConstantClose(w) ==
  \A i \in 1..NRows(store[arg[w]].rows) :
    store[arg[w]].rows["close"][i] = store[arg[w]].rows["close"][1]
\* The number of bars call w was given.
BarsGiven(w) == NRows(store[arg[w]].rows)

\* C12 as stated: on 20 or more bars of constant close the result has
\* bb_width = 0, rsi_6 = rsi_12 = rsi_24 = 50 and macd_bar = 0.
C12_ConstantSeriesAsStated ==
  \A w \in Workers :
    (Full(w) /\ ConstantClose(w)) =>
      /\ returned[w].bb_width = Zero
      /\ returned[w].rsi_6 = I(50) /\ returned[w].rsi_12 = I(50)
      /\ returned[w].rsi_24 = I(50)
      /\ returned[w].macd_bar = Zero

\* C12, amended: on 20 or more bars of constant close the result has
\* bb_width = 0 and macd_bar = 0; rsi_6 = rsi_12 = rsi_24 = 50 on 24 or more
\* bars, and on 20 to 23 bars the three stay at 0 with the insufficient-data
\* text.
C12_ConstantSeries ==
  \A w \in Workers :
    (Full(w) /\ ConstantClose(w)) =>
      LET r == returned[w]
      IN  /\ r.bb_width = Zero
          /\ r.macd_bar = Zero
          /\ BarsGiven(w) >= 24 =>
               r.rsi_6 = I(50) /\ r.rsi_12 = I(50) /\ r.rsi_24 = I(50)
          /\ BarsGiven(w) < 24 =>
               /\ r.rsi_6 = Zero /\ r.rsi_12 = Zero /\ r.rsi_24 = Zero
               /\ r.rsi_signal = InsufficientData
\* A call on 26 bars of constant close has returned with rsi_12 at 50.
C12_Witness ==
  /\ Full(1) /\ ConstantClose(1) /\ BarsGiven(1) >= 26
  /\ returned[1].rsi_12 = I(50)
  /\ returned[1].bb_upper = returned[1].bb_lower

\* C13: below an indicator's history threshold the indicator degrades: on
\* 20 to 25 bars macd_signal is the insufficient-data text and macd_dif,
\* macd_dea and macd_bar stay 0; on 20 to 23 bars rsi_signal is the
\* insufficient-data text and rsi_6, rsi_12 and rsi_24 stay 0; the call
\* runs the scorer and returns a score.
C13_ShortHistoryDegrades ==
  \A w \in Workers :
    Full(w) =>
      LET r == returned[w]
      IN  /\ BarsGiven(w) < 26 =>
               /\ r.macd_signal = <<"insufficient data">>
               /\ r.macd_dif = Zero /\ r.macd_dea = Zero /\ r.macd_bar = Zero
          /\ BarsGiven(w) < 24 =>
               /\ r.rsi_signal = <<"insufficient data">>
               /\ r.rsi_6 = Zero /\ r.rsi_12 = Zero /\ r.rsi_24 = Zero
          /\ log[w][Len(log[w])] = "_generate_signal"
          /\ r.signal_score \in 1..100
          /\ r.signal_reasons # <<>>
\* A call on 20 bars has returned: the MACD and RSI columns of the latest
\* bar are not 0, the fields of the result are.
C13_Witness ==
  /\ Full(1) /\ BarsGiven(1) = 20
  /\ df[1]["MACD_BAR"][20] # Zero /\ df[1]["RSI_12"][20] # Zero
  /\ returned[1].macd_bar = Zero /\ returned[1].rsi_12 = Zero

\* ------------------------------------------------------- long histories
\* Lengths around the 60-bar and the 250-bar windows of MA60 and MA250.
LongLengths == {MinBars - 1, 59, 60, 249, 250}
\* n bars whose close moves by s1 a bar up to the bar 5 before the latest and
\* by s2 a bar from there on, from `from`; constant volume, wicks of 1.
RampSeries(n, from, s1, s2) ==
  LET c == [i \in 1..n |-> from + s1 * Min2(i, n - 5) + s2 * Max2(0, i - (n - 5))]
  IN  [date |-> [i \in 1..n |-> i] \o <<>>, open |-> c \o <<>>,
       high |-> [i \in 1..n |-> c[i] + 1] \o <<>>,
       low |-> [i \in 1..n |-> c[i] - 1] \o <<>>,
       close |-> c \o <<>>, volume |-> [i \in 1..n |-> BaseVol] \o <<>>]
RampLengths == {MinBars, MinBars + 3, MinBars + 4, 300}
RampSteps == {<<1, 1>>, <<3, 1>>, <<1, 3>>, <<3, 3>>, <<1, 6>>}
\* Strictly rising series, and strictly falling ones that stay above zero.
RampFamily ==
  {RampSeries(n, Base, s[1], s[2]) : n \in RampLengths, s \in RampSteps}
  \cup {RampSeries(n, Base + 4 * n, -s[1], -s[2]) : n \in RampLengths, s \in RampSteps}
\* Latest volumes at and next to the two thresholds, and a tenfold spike.
LastVolumes ==
  {(7 * BaseVol) \div 10, (7 * BaseVol) \div 10 + 1, (3 * BaseVol) \div 2 - 1,
   (3 * BaseVol) \div 2, 10 * BaseVol}
\* Flat series of MinBars bars with a last bar up, flat or down on such a volume.
VolumeFamily ==
  {MakeSeries(MinBars, 0, 0, 0, l, BaseVol, v, 1) : l \in LastSteps, v \in LastVolumes}
\* Cheap series that jump by 8 a bar over the last 5 bars: the 20-bar
\* deviation is more than half the 20-bar mean.
WideFamily == {RampSeries(n, 2, 0, 8) : n \in {MinBars, MinBars + 4}}
\* Series that end on a plateau of 10 bars (MA5 = MA10, MA20 apart), and
\* series of MinBars bars whose last 10 bars average the earlier level
\* (MA10 = MA20, MA5 apart).
PlateauFamily ==
  {MakeSeries(n, m, m, m, m, BaseVol, BaseVol, 1) :
     n \in {MinBars, MinBars + 4}, m \in {-10, 10}}
  \cup {MakeSeries(MinBars, -m, m, m, m, BaseVol, BaseVol, 1) : m \in {-10, 10}}
LongFamily ==
  {MakeSeries(n, m, 0, p, p + 2, BaseVol, BaseVol, 1) :
     n \in LongLengths, m \in {-10, 10}, p \in {-30, 30}}
  \cup RampFamily \cup VolumeFamily \cup WideFamily \cup PlateauFamily

\* One call on a series of the long family.
InitLong ==
  /\ \E x \in LongFamily : store = <<DataFrame(x), None>>
  /\ arg = <<1, 2>>
  /\ code = <<"600519", "000001">>
  /\ pc = <<"call", "idle">>
  /\ df = <<Empty, Empty>>
  /\ result = <<Unset, Unset>>
  /\ heap = <<>>
  /\ log = <<<<>>, <<>>>>
  /\ returned = <<Unset, Unset>>
  /\ flat = <<Unset, Unset>>

SpecLong == InitLong /\ [][Next]_vars

RECURSIVE SumOver(_, _, _)
\* f[lo] + ... + f[hi]
SumOver(f, lo, hi) ==
  IF lo > hi THEN 0
  ELSE IF lo = hi THEN f[lo]
  ELSE SumOver(f, lo, (lo + hi) \div 2) + SumOver(f, (lo + hi) \div 2 + 1, hi)
\* The mean close of the last k bars call w was given (bars in date order).
TrailingMean(w, k) ==
  Rat(SumOver(store[arg[w]].rows["close"], BarsGiven(w) - k + 1, BarsGiven(w)), k)

\* C14: on 20 to 59 bars ma60 and ma250 both equal ma20, and so bias_ma60 and
\* bias_ma250 equal bias_ma20; on 60 to 249 bars ma60 is the mean close of
\* the last 60 bars and ma250 equals ma60; on 250 or more bars ma60 and ma250
\* are the mean closes of the last 60 and the last 250 bars.
C14_LongAverageFallback ==
  \A w \in Workers :
    (Full(w) /\ Sorted(store[arg[w]].rows)) =>
      LET r == returned[w]
          n == BarsGiven(w)
      IN  /\ r.ma20 = TrailingMean(w, 20)
          /\ n < 60 =>
               /\ r.ma60 = r.ma20 /\ r.ma250 = r.ma20
               /\ r.bias_ma60 = r.bias_ma20 /\ r.bias_ma250 = r.bias_ma20
          /\ (n >= 60 /\ n < 250) =>
               /\ r.ma60 = TrailingMean(w, 60) /\ r.ma250 = r.ma60
          /\ n >= 250 =>
               /\ r.ma60 = TrailingMean(w, 60)
               /\ r.ma250 = TrailingMean(w, 250)
\* A call on 250 bars returned with three different long averages.
C14_Witness ==
  /\ Full(1) /\ BarsGiven(1) = 250
  /\ returned[1].ma250 = TrailingMean(1, 250)
  /\ returned[1].ma250 # returned[1].ma60
  /\ returned[1].ma60 # returned[1].ma20
\* A call on 59 bars returned with the 20-bar mean in all three.
C14_WitnessShort ==
  /\ Full(1) /\ BarsGiven(1) = 59
  /\ returned[1].ma60 = returned[1].ma20 /\ returned[1].ma250 = returned[1].ma20

\* C15: at every bar with 20 bars of history BB_LOWER <= BB_MIDDLE <= BB_UPPER,
\* and the result of every call on 20 or more bars has
\* bb_lower <= bb_middle <= bb_upper.
C15_BandsOrdered ==
  \A w \in Workers :
    /\ "BB_LOWER" \in DOMAIN df[w] =>
         \A i \in BB_PERIOD..NRows(df[w]) :
           /\ Le(df[w]["BB_LOWER"][i], df[w]["BB_MIDDLE"][i])
           /\ Le(df[w]["BB_MIDDLE"][i], df[w]["BB_UPPER"][i])
    /\ Full(w) =>
         /\ Le(returned[w].bb_lower, returned[w].bb_middle)
         /\ Le(returned[w].bb_middle, returned[w].bb_upper)
\* A call returned with three distinct bands.
C15_Witness ==
  /\ Full(1)
  /\ Lt(returned[1].bb_lower, returned[1].bb_middle)
  /\ Lt(returned[1].bb_middle, returned[1].bb_upper)
  /\ Lt(df[1]["BB_LOWER"][BB_PERIOD], df[1]["BB_UPPER"][BB_PERIOD])

\* 3 * k - 2 * d
ThreeKLessTwoD(k, d) == RSub(RMul(I(3), k), RMul(I(2), d))

\* C16: at every bar the KDJ columns satisfy J = 3K - 2D, and so do kdj_j,
\* kdj_k and kdj_d of the result.
C16_JFromKAndD ==
  \A w \in Workers :
    /\ "KDJ_J" \in DOMAIN df[w] =>
         \A i \in 1..NRows(df[w]) :
           df[w]["KDJ_J"][i] = ThreeKLessTwoD(df[w]["KDJ_K"][i], df[w]["KDJ_D"][i])
    /\ Full(w) =>
         returned[w].kdj_j = ThreeKLessTwoD(returned[w].kdj_k, returned[w].kdj_d)
\* A call returned with K, D and J all different.
C16_Witness ==
  /\ Full(1)
  /\ returned[1].kdj_k # returned[1].kdj_d
  /\ returned[1].kdj_j # returned[1].kdj_k
  /\ returned[1].kdj_j = ThreeKLessTwoD(returned[1].kdj_k, returned[1].kdj_d)

\* The closes call w was given rise from each bar to the next (bars in date
\* order).
StrictlyRising(w) ==
  /\ Sorted(store[arg[w]].rows)
  /\ \A i \in 1..(BarsGiven(w) - 1) :
       store[arg[w]].rows["close"][i] < store[arg[w]].rows["close"][i + 1]

\* C17: on a strictly rising close series of 20 or more bars the latest bar
\* has MA5 > MA10 > MA20 and trend_status is BULL or STRONG_BULL.
C17_RisingSeriesIsBull ==
  \A w \in Workers :
    (Full(w) /\ StrictlyRising(w)) =>
      /\ Gt(returned[w].ma5, returned[w].ma10)
      /\ Gt(returned[w].ma10, returned[w].ma20)
      /\ returned[w].trend_status \in {"BULL", "STRONG_BULL"}
\* A call on 300 strictly rising bars returned BULL.
C17_Witness ==
  /\ Full(1) /\ StrictlyRising(1) /\ BarsGiven(1) = 300
  /\ returned[1].trend_status = "BULL"
\* A call on strictly rising bars returned STRONG_BULL.
C17_WitnessStrong ==
  /\ Full(1) /\ StrictlyRising(1)
  /\ returned[1].trend_status = "STRONG_BULL"

\* The trend_strength the spec gives for each trend status.
StrengthTable ==
  [s \in TrendStatus |->
     CASE s = "STRONG_BULL" -> 90 [] s = "BULL" -> 75 [] s = "WEAK_BULL" -> 55
       [] s = "CONSOLIDATION" -> 50 [] s = "WEAK_BEAR" -> 40 [] s = "BEAR" -> 25
       [] s = "STRONG_BEAR" -> 10]
\* The statuses the spec allows for averages a = MA5, b = MA10, c = MA20.
StatusesFor(a, b, c) ==
  IF Gt(a, b) /\ Gt(b, c) THEN {"STRONG_BULL", "BULL"}
  ELSE IF Gt(a, b) THEN {"WEAK_BULL"}
  ELSE IF Lt(a, b) /\ Lt(b, c) THEN {"STRONG_BEAR", "BEAR"}
  ELSE IF Lt(a, b) THEN {"WEAK_BEAR"}
  ELSE {"CONSOLIDATION"}

\* C18: every call on 20 or more bars gets exactly one of the seven trend
\* statuses, the one its three averages call for, and the trend_strength
\* fixed for that status (90, 75, 55, 50, 40, 25, 10).
C18_TrendClassificationTotal ==
  \A w \in Workers :
    Full(w) =>
      LET r == returned[w]
      IN  /\ ~IsNaN(r.ma5) /\ ~IsNaN(r.ma10) /\ ~IsNaN(r.ma20)
          /\ r.trend_status \in TrendStatus
          /\ r.trend_status \in StatusesFor(r.ma5, r.ma10, r.ma20)
          /\ r.trend_strength = I(StrengthTable[r.trend_status])
\* A call returned WEAK_BEAR with strength 40.
C18_Witness ==
  /\ Full(1) /\ returned[1].trend_status = "WEAK_BEAR"
  /\ returned[1].trend_strength = I(40)
  /\ Lt(returned[1].ma5, returned[1].ma10) /\ Ge(returned[1].ma10, returned[1].ma20)
\* Some call has returned the trend status `status`.
Reached(status) == \E w \in Workers : Full(w) /\ returned[w].trend_status = status

\* The MA5-MA20 percentage spread of row i of call w's frame, on the side of
\* the alignment: (MA5 - MA20) / MA20 * 100 for bulls, (MA20 - MA5) / MA5 * 100
\* for bears.
SpreadAt(w, i, bull) ==
  IF bull THEN Spread(df[w]["MA5"][i], df[w]["MA20"][i])
  ELSE Spread(df[w]["MA20"][i], df[w]["MA5"][i])
\* Whether the spread of the latest row of call w is above 5% and above the
\* spread of the row `back` bars before the latest.
Widening(w, back, bull) ==
  /\ Gt(SpreadAt(w, BarsGiven(w), bull), SpreadAt(w, BarsGiven(w) - back, bull))
  /\ Gt(SpreadAt(w, BarsGiven(w), bull), I(5))

\* C19: with MA5 > MA10 > MA20 (or MA5 < MA10 < MA20) and MA20 defined 5 bars
\* before the latest bar, the status is STRONG_BULL (STRONG_BEAR) exactly when
\* the current MA5-MA20 spread is above 5% and above the spread of the bar
\* 5 bars before the latest bar, and BULL (BEAR) otherwise.
C19_StrongWhenWiderThanFiveBarsAgo ==
  \A w \in Workers :
    (Full(w) /\ BarsGiven(w) >= MinBars + 5) =>
      LET r == returned[w]
      IN  /\ r.trend_status \in {"STRONG_BULL", "BULL"} =>
               (r.trend_status = "STRONG_BULL" <=> Widening(w, 5, TRUE))
          /\ r.trend_status \in {"STRONG_BEAR", "BEAR"} =>
               (r.trend_status = "STRONG_BEAR" <=> Widening(w, 5, FALSE))
\* What the code does: the comparison is with the row 4 bars before the latest.
C19_StrongWhenWiderThanFourBarsAgo ==
  \A w \in Workers :
    (Full(w) /\ BarsGiven(w) >= MinBars + 4) =>
      LET r == returned[w]
      IN  /\ r.trend_status \in {"STRONG_BULL", "BULL"} =>
               (r.trend_status = "STRONG_BULL" <=> Widening(w, 4, TRUE))
          /\ r.trend_status \in {"STRONG_BEAR", "BEAR"} =>
               (r.trend_status = "STRONG_BEAR" <=> Widening(w, 4, FALSE))

\* The mean volume of the 5 bars before the latest bar call w was given.
PriorVolumeMean(w) ==
  Rat(SumOver(store[arg[w]].rows["volume"], BarsGiven(w) - 5, BarsGiven(w) - 1), 5)
\* Latest volume over the mean volume of the 5 bars before it.
VolumeRatio(w) ==
  RDiv(I(store[arg[w]].rows["volume"][BarsGiven(w)]), PriorVolumeMean(w))
\* The latest close of call w's bars less the close before it.
LastMove(w) ==
  store[arg[w]].rows["close"][BarsGiven(w)]
    - store[arg[w]].rows["close"][BarsGiven(w) - 1]

\* C20: where the 5 bars before the latest have traded, volume_ratio_5d is
\* the latest volume over their mean volume; a ratio of 1.5 or more gives
\* HEAVY_VOLUME_UP on a price rise and HEAVY_VOLUME_DOWN on a fall, a ratio of
\* 0.7 or less SHRINK_VOLUME_UP on a rise and SHRINK_VOLUME_DOWN on a fall, a
\* ratio between the two NORMAL; a tenfold volume on an up day is
\* HEAVY_VOLUME_UP.
C20_VolumeRegime ==
  \A w \in Workers :
    (Full(w) /\ Sorted(store[arg[w]].rows) /\ Gt(PriorVolumeMean(w), Zero)) =>
      LET r == returned[w]
          ratio == VolumeRatio(w)
          heavy == Ge(ratio, Rat(3, 2))
          shrink == Le(ratio, Rat(7, 10))
      IN  /\ r.volume_ratio_5d = ratio
          /\ (heavy /\ LastMove(w) > 0) => r.volume_status = "HEAVY_VOLUME_UP"
          /\ (heavy /\ LastMove(w) < 0) => r.volume_status = "HEAVY_VOLUME_DOWN"
          /\ (shrink /\ LastMove(w) > 0) => r.volume_status = "SHRINK_VOLUME_UP"
          /\ (shrink /\ LastMove(w) < 0) => r.volume_status = "SHRINK_VOLUME_DOWN"
          /\ (~heavy /\ ~shrink) => r.volume_status = "NORMAL"
          /\ (ratio = I(10) /\ LastMove(w) > 0) => r.volume_status = "HEAVY_VOLUME_UP"
\* A call whose latest bar rose on ten times the prior volume returned
\* HEAVY_VOLUME_UP.
C20_Witness ==
  /\ Full(1) /\ Gt(PriorVolumeMean(1), Zero)
  /\ VolumeRatio(1) = I(10) /\ LastMove(1) > 0
  /\ returned[1].volume_status = "HEAVY_VOLUME_UP"
\* A call whose latest bar fell on exactly 1.5 times the prior volume returned
\* HEAVY_VOLUME_DOWN.
C20_WitnessThreshold ==
  /\ Full(1) /\ VolumeRatio(1) = Rat(3, 2) /\ LastMove(1) < 0
  /\ returned[1].volume_status = "HEAVY_VOLUME_DOWN"

\* ------------------------------------------------------ MACD classification
\* Call w ran the MACD classifier on 26 or more bars.
MacdClassified(w) == Full(w) /\ BarsGiven(w) >= 26
\* DIF and DIF - DEA on the latest row (back = 0) and the one before (back = 1)
\* of call w's frame.
DifAt(w, back) == df[w]["MACD_DIF"][BarsGiven(w) - back]
GapAt(w, back) ==
  RSub(df[w]["MACD_DIF"][BarsGiven(w) - back], df[w]["MACD_DEA"][BarsGiven(w) - back])
\* The seven conditions of the spec, in its order of priority.
MacdConditions(w) ==
  LET golden == Le(GapAt(w, 1), Zero) /\ Gt(GapAt(w, 0), Zero)
      dea == df[w]["MACD_DEA"][BarsGiven(w)]
  IN  << golden /\ Gt(DifAt(w, 0), Zero),
         Le(DifAt(w, 1), Zero) /\ Gt(DifAt(w, 0), Zero),
         golden,
         Ge(GapAt(w, 1), Zero) /\ Lt(GapAt(w, 0), Zero),
         Ge(DifAt(w, 1), Zero) /\ Lt(DifAt(w, 0), Zero),
         Gt(DifAt(w, 0), Zero) /\ Gt(dea, Zero),
         Lt(DifAt(w, 0), Zero) /\ Lt(dea, Zero),
         TRUE >>
\* The outcome of each condition: macd_status and the head of macd_signal.
MacdOutcomes ==
  << <<"GOLDEN_CROSS_ZERO", "golden cross above zero, strong buy">>,
     <<"CROSSING_UP", "DIF crosses up through zero">>,
     <<"GOLDEN_CROSS", "golden cross, trend up">>,
     <<"DEATH_CROSS", "death cross, trend down">>,
     <<"CROSSING_DOWN", "DIF crosses down through zero">>,
     <<"BULLISH", "bullish, rise continues">>,
     <<"BEARISH", "bearish, fall continues">>,
     <<"BULLISH", "MACD neutral zone">> >>
\* The first condition of call w that holds.
FirstMacdCondition(w) ==
  CHOOSE k \in 1..8 :
    MacdConditions(w)[k] /\ \A j \in 1..(k - 1) : ~MacdConditions(w)[j]

\* C21: on 26 or more bars the MACD outcome is that of the first condition
\* that holds, in the order golden cross with DIF > 0, DIF crossing up through
\* zero, golden cross, death cross, DIF crossing down through zero, bullish,
\* bearish; the neutral outcome is reported only when none of the seven holds.
C21_MacdPriority ==
  \A w \in Workers :
    MacdClassified(w) =>
      /\ returned[w].macd_status = MacdOutcomes[FirstMacdCondition(w)][1]
      /\ returned[w].macd_signal = <<MacdOutcomes[FirstMacdCondition(w)][2]>>
\* Outcome k was returned with a later condition holding too.
MacdOvertaken(k) ==
  /\ MacdClassified(1) /\ FirstMacdCondition(1) = k
  /\ returned[1].macd_signal = <<MacdOutcomes[k][2]>>
  /\ \E j \in (k + 1)..7 : MacdConditions(1)[j]
\* A death cross was returned although DIF and DEA are both above zero.
C21_Witness == MacdOvertaken(4) /\ MacdConditions(1)[6]

\* ------------------------------------------------- support and resistance
\* ma <= price <= 1.02 * ma, for an average above zero
HoldsAsSupport(price, ma) ==
  Gt(ma, Zero) /\ Le(ma, price) /\ Le(price, RMul(Rat(102, 100), ma))
\* The highest high of the last 20 bars call w was given (bars in date order).
RecentHigh(w) ==
  I(MaxOf(store[arg[w]].rows["high"], BarsGiven(w) - 19, BarsGiven(w)))

\* C22: support_ma5 (support_ma10) is true exactly when MA5 (MA10) is above
\* zero and MA <= price <= 1.02 * MA, and then the average is in
\* support_levels; MA20 is in support_levels whenever it is above zero and the
\* price is at or above it; the highest high of the last 20 bars is in
\* resistance_levels exactly when it is above the price; an average above the
\* price is never flagged as support.
C22_SupportAndResistance ==
  \A w \in Workers :
    (Full(w) /\ Sorted(store[arg[w]].rows)) =>
      LET r == returned[w]
          price == r.current_price
      IN  /\ r.support_ma5 <=> HoldsAsSupport(price, r.ma5)
          /\ r.support_ma10 <=> HoldsAsSupport(price, r.ma10)
          /\ r.support_ma5 => r.ma5 \in Range(r.support_levels)
          /\ r.support_ma10 => r.ma10 \in Range(r.support_levels)
          /\ (Gt(r.ma20, Zero) /\ Ge(price, r.ma20)) => r.ma20 \in Range(r.support_levels)
          /\ RecentHigh(w) \in Range(r.resistance_levels) <=> Gt(RecentHigh(w), price)
          /\ Lt(price, r.ma5) => ~r.support_ma5
          /\ Lt(price, r.ma10) => ~r.support_ma10
\* A call returned with MA5 flagged as support and listed, MA10 too far below
\* the price to be flagged, and the recent high listed as resistance.
C22_Witness ==
  /\ Full(1)
  /\ returned[1].support_ma5 /\ ~returned[1].support_ma10
  /\ Gt(returned[1].current_price, returned[1].ma5)
  /\ Gt(returned[1].current_price, returned[1].ma10)
  /\ returned[1].ma5 \in Range(returned[1].support_levels)
  /\ returned[1].resistance_levels = <<RecentHigh(1)>>
\* A call returned with the price less than 2% below MA5.
C22_WitnessJustBelow ==
  /\ Full(1)
  /\ Lt(returned[1].current_price, returned[1].ma5)
  /\ Ge(returned[1].current_price, RMul(Rat(98, 100), returned[1].ma5))
  /\ ~returned[1].support_ma5

\* ------------------------------------------------------------- band width
\* C23: every result computed from 20 or more bars has
\* bb_width = 100 * (bb_upper - bb_lower) / bb_middle, also when the lower
\* band is zero or negative.
C23_BandWidthFormula ==
  \A w \in Workers :
    Full(w) =>
      returned[w].bb_width
        = RMul(I(100), RDiv(RSub(returned[w].bb_upper, returned[w].bb_lower),
                            returned[w].bb_middle))
\* What the code does: the formula where both bands are above zero, else the
\* initial 0.
C23_BandWidthWherePositive ==
  \A w \in Workers :
    Full(w) =>
      returned[w].bb_width
        = IF Gt(returned[w].bb_upper, Zero) /\ Gt(returned[w].bb_lower, Zero)
          THEN RMul(I(100), RDiv(RSub(returned[w].bb_upper, returned[w].bb_lower),
                                 returned[w].bb_middle))
          ELSE Zero

\* ------------------------------------------------------- implied by the code
Bullish(w) == returned[w].trend_status \in {"STRONG_BULL", "BULL"}

\* C24: STRONG_BUY is never issued when bias_ma5 >= 5: under a bullish
\* alignment such a price is more than 2% above MA5 and MA10, neither support
\* flag is set and the score is at most 74.
C24_NoStrongBuyAboveBiasThreshold ==
  \A w \in Workers :
    (Full(w) /\ Ge(returned[w].bias_ma5, I(BIAS_THRESHOLD))) =>
      /\ returned[w].buy_signal # "STRONG_BUY"
      /\ Bullish(w) =>
           /\ ~returned[w].support_ma5 /\ ~returned[w].support_ma10
           /\ returned[w].signal_score <= 74
\* A bullish call returned BUY with bias_ma5 at or above 5% and a score of 60
\* or more.
C24_Witness ==
  /\ Full(1) /\ Bullish(1)
  /\ Ge(returned[1].bias_ma5, I(BIAS_THRESHOLD))
  /\ returned[1].signal_score >= 60
  /\ returned[1].buy_signal = "BUY"

\* C25: every call on 20 or more bars has signal_score >= 4; with a BULL or
\* STRONG_BULL trend signal_score >= 30, so the action is never SELL or
\* STRONG_SELL.
C25_ScoreFloor ==
  \A w \in Workers :
    Full(w) =>
      /\ returned[w].signal_score >= 4
      /\ Bullish(w) =>
           /\ returned[w].signal_score >= 30
           /\ returned[w].buy_signal \notin {"SELL", "STRONG_SELL"}
\* A bullish call returned WAIT, the weakest action it can get.
C25_Witness ==
  /\ Full(1) /\ Bullish(1)
  /\ returned[1].signal_score < 45
  /\ returned[1].buy_signal = "WAIT"

\* C26: with the three averages defined, trend_status is CONSOLIDATION exactly
\* when MA5 = MA10; every other triple gets one of the six directional
\* statuses, wherever MA20 lies.
C26_ConsolidationIffShortAveragesEqual ==
  \A w \in Workers :
    Full(w) =>
      /\ returned[w].trend_status = "CONSOLIDATION"
           <=> returned[w].ma5 = returned[w].ma10
      /\ returned[w].ma5 # returned[w].ma10 =>
           returned[w].trend_status \in TrendStatus \ {"CONSOLIDATION"}
\* A call returned CONSOLIDATION with MA20 away from the two equal averages.
C26_Witness ==
  /\ Full(1) /\ returned[1].trend_status = "CONSOLIDATION"
  /\ returned[1].ma5 = returned[1].ma10
  /\ returned[1].ma20 # returned[1].ma10
\* A call returned a directional status with MA10 = MA20.
C26_WitnessDirectional ==
  /\ Full(1) /\ returned[1].ma5 # returned[1].ma10
  /\ returned[1].ma10 = returned[1].ma20
  /\ returned[1].trend_status \in {"WEAK_BULL", "WEAK_BEAR"}

\* The score of result r without its MACD part, and without its RSI part.
ScoreWithoutMacd(r) ==
  TrendScore(r.trend_status) + BiasTable(r.bias_ma5).points
  + VolumeScore(r.volume_status)
  + (IF r.support_ma5 THEN 5 ELSE 0) + (IF r.support_ma10 THEN 5 ELSE 0)
  + RsiScore(r.rsi_status)
ScoreWithoutRsi(r) ==
  TrendScore(r.trend_status) + BiasTable(r.bias_ma5).points
  + VolumeScore(r.volume_status)
  + (IF r.support_ma5 THEN 5 ELSE 0) + (IF r.support_ma10 THEN 5 ELSE 0)
  + MacdScore(r.macd_status)
\* The MACD analysis of call w reached no directional verdict.
NoMacdVerdict(w) ==
  \/ BarsGiven(w) < 26
  \/ returned[w].macd_signal = <<"MACD neutral zone">>
\* Some entry of the list carries the text, bare or behind a mark.
Carries(list, text) ==
  \E i \in DOMAIN list : list[i] = text \/ SubSeq(list[i], 2, Len(list[i])) = text

\* C27: when the MACD analysis reaches no directional verdict (20 to 25
\* bars, or the neutral branch) macd_status is BULLISH, the MACD part of the
\* score is 8 and the MACD text is in signal_reasons, not in risk_factors; on
\* 20 to 23 bars rsi_status is NEUTRAL and the RSI part of the score is 5.
C27_NoVerdictScoresAsBullish ==
  \A w \in Workers :
    Full(w) =>
      LET r == returned[w]
      IN  /\ NoMacdVerdict(w) =>
               /\ r.macd_status = "BULLISH"
               /\ r.signal_score - ScoreWithoutMacd(r) = 8
               /\ r.macd_signal \in Range(r.signal_reasons)
               /\ ~Carries(r.risk_factors, r.macd_signal)
          /\ BarsGiven(w) < 24 =>
               /\ r.rsi_status = "NEUTRAL"
               /\ r.signal_score - ScoreWithoutRsi(r) = 5
\* A call on 26 or more bars took the neutral branch and returned its text
\* among the reasons.
C27_Witness ==
  /\ Full(1) /\ BarsGiven(1) >= 26
  /\ returned[1].macd_signal = <<"MACD neutral zone">>
  /\ returned[1].macd_status = "BULLISH"
  /\ returned[1].macd_signal \in Range(returned[1].signal_reasons)
\* A call on 20 bars returned the insufficient-data text among the reasons.
C27_WitnessShort ==
  /\ Full(1) /\ BarsGiven(1) = 20
  /\ returned[1].macd_signal = InsufficientData
  /\ returned[1].macd_signal \in Range(returned[1].signal_reasons)
  /\ returned[1].rsi_status = "NEUTRAL"

\* The score of result r without its volume part.
ScoreWithoutVolume(r) ==
  TrendScore(r.trend_status) + BiasTable(r.bias_ma5).points
  + (IF r.support_ma5 THEN 5 ELSE 0) + (IF r.support_ma10 THEN 5 ELSE 0)
  + MacdScore(r.macd_status) + RsiScore(r.rsi_status)

\* C28: a latest close equal to the close before it counts as a down day: with
\* a ratio of 1.5 or more the regime is HEAVY_VOLUME_DOWN, worth 0 points and
\* a risk factor, with a ratio of 0.7 or less SHRINK_VOLUME_DOWN, worth 15
\* points and a reason; the up variants are given on a rise only.
C28_FlatDayIsDown ==
  \A w \in Workers :
    (Full(w) /\ Sorted(store[arg[w]].rows) /\ Gt(PriorVolumeMean(w), Zero)) =>
      LET r == returned[w]
      IN  /\ (LastMove(w) = 0 /\ Ge(VolumeRatio(w), Rat(3, 2))) =>
               /\ r.volume_status = "HEAVY_VOLUME_DOWN"
               /\ r.signal_score - ScoreWithoutVolume(r) = 0
               /\ <<"heavy volume down, mind the risk">> \in Range(r.risk_factors)
          /\ (LastMove(w) = 0 /\ Le(VolumeRatio(w), Rat(7, 10))) =>
               /\ r.volume_status = "SHRINK_VOLUME_DOWN"
               /\ r.signal_score - ScoreWithoutVolume(r) = 15
               /\ <<"shrinking pullback, shake-out">> \in Range(r.signal_reasons)
          /\ r.volume_status \in {"HEAVY_VOLUME_UP", "SHRINK_VOLUME_UP"} =>
               LastMove(w) > 0
\* A call whose latest close is unchanged on shrunken volume returned
\* SHRINK_VOLUME_DOWN.
C28_Witness ==
  /\ Full(1) /\ LastMove(1) = 0
  /\ Gt(PriorVolumeMean(1), Zero) /\ Le(VolumeRatio(1), Rat(7, 10))
  /\ returned[1].volume_status = "SHRINK_VOLUME_DOWN"
\* A call whose latest close is unchanged on heavy volume returned
\* HEAVY_VOLUME_DOWN.
C28_WitnessHeavy ==
  /\ Full(1) /\ LastMove(1) = 0
  /\ Gt(PriorVolumeMean(1), Zero) /\ Ge(VolumeRatio(1), Rat(3, 2))
  /\ returned[1].volume_status = "HEAVY_VOLUME_DOWN"

\* C29: when the mean volume of the 5 bars before the latest is zero,
\* volume_ratio_5d stays 0 and the regime is SHRINK_VOLUME_UP or
\* SHRINK_VOLUME_DOWN whatever the latest volume: never heavy, never NORMAL.
C29_UntradedPriorBarsShrink ==
  \A w \in Workers :
    (Full(w) /\ Sorted(store[arg[w]].rows) /\ PriorVolumeMean(w) = Zero) =>
      /\ returned[w].volume_ratio_5d = Zero
      /\ returned[w].volume_status \in {"SHRINK_VOLUME_UP", "SHRINK_VOLUME_DOWN"}
\* A call whose latest bar rose on some volume after 5 untraded bars returned
\* SHRINK_VOLUME_UP.
C29_Witness ==
  /\ Full(1) /\ PriorVolumeMean(1) = Zero
  /\ store[arg[1]].rows["volume"][BarsGiven(1)] > 0
  /\ LastMove(1) > 0
  /\ returned[1].volume_status = "SHRINK_VOLUME_UP"

\* Call w ran on 20 to 23 bars: the row 4 bars before the latest has no MA20.
NoEarlierMA20(w) ==
  /\ Full(w) /\ BarsGiven(w) <= 23
  /\ IsNaN(df[w]["MA20"][BarsGiven(w) - 4])

\* C30: on 20 to 23 bars the earlier reference row has no MA20; under the
\* bullish ordering the status is STRONG_BULL exactly when the current spread
\* is above 5%, under the bearish ordering it is always BEAR, never
\* STRONG_BEAR.
C30_ShortSeriesStrongOnlyForBulls ==
  \A w \in Workers :
    (Full(w) /\ BarsGiven(w) <= 23) =>
      LET r == returned[w]
      IN  /\ NoEarlierMA20(w)
          /\ (Gt(r.ma5, r.ma10) /\ Gt(r.ma10, r.ma20)) =>
               /\ r.trend_status = "STRONG_BULL" <=> Gt(SpreadAt(w, BarsGiven(w), TRUE), I(5))
               /\ r.trend_status = "BULL" <=> ~Gt(SpreadAt(w, BarsGiven(w), TRUE), I(5))
          /\ (Lt(r.ma5, r.ma10) /\ Lt(r.ma10, r.ma20)) => r.trend_status = "BEAR"
          /\ r.trend_status # "STRONG_BEAR"
\* A call on 20 bars in bearish order with a spread above 5% returned BEAR.
C30_Witness ==
  /\ NoEarlierMA20(1)
  /\ Lt(returned[1].ma5, returned[1].ma10) /\ Lt(returned[1].ma10, returned[1].ma20)
  /\ Gt(SpreadAt(1, BarsGiven(1), FALSE), I(5))
  /\ returned[1].trend_status = "BEAR"
\* A call on 20 bars in bullish order with a spread above 5% returned
\* STRONG_BULL.
C30_WitnessBull ==
  /\ NoEarlierMA20(1)
  /\ Gt(SpreadAt(1, BarsGiven(1), TRUE), I(5))
  /\ returned[1].trend_status = "STRONG_BULL"
\* A call on 20 bars in bullish order with a spread of 5% or less returned BULL.
C30_WitnessBullNarrow ==
  /\ NoEarlierMA20(1)
  /\ ~Gt(SpreadAt(1, BarsGiven(1), TRUE), I(5))
  /\ returned[1].trend_status = "BULL"

====
